---------------------------- MODULE Spec2Model ----------------------------
(***************************************************************************)
(* NC1 (DSTV) to DXF conversion of nc-renamer: block tokenizer, curvature  *)
(* point extractor, bulge geometry engine, bore classifier and drawing     *)
(* assembler of src/main.py, as one state machine per converted text.      *)
(*                                                                         *)
(* Text.  A line is a sequence of one-character strings; the input is the  *)
(* list text.splitlines() returns.                                         *)
(*                                                                         *)
(* Numbers.  A parsed number is an exact decimal [m, f] = m / 10^f with    *)
(* no trailing zero in the fraction, so equal values are equal records.    *)
(* Results of sqrt, asin and tan are fixed-point integers: lengths in      *)
(* units of 1/LScale, angles and ratios in units of 1/Scale.               *)
(***************************************************************************)
EXTENDS Integers, Sequences, FiniteSets, TLC

VARIABLES
    lines,          \* text.splitlines() of the text being converted
    i,              \* tokenize_blocks: number of lines the for loop has taken
    cur_tag,        \* tokenize_blocks: tag of the open block, NoTag for None
    cur,            \* tokenize_blocks: lines of the open block
    yielded,        \* the (tag, lines) pairs the generator has yielded so far
    discarded,      \* lines the generator dropped because no block was open
    outer_pts,      \* generate_dxf_from_nc_text: [some, pts], some = FALSE for None
    inner_contours, \* generate_dxf_from_nc_text: list of point lists
    bo_items,       \* generate_dxf_from_nc_text: list of bore records
    pc,             \* "tok", "outer", "ik", "bo", "done"; "raised": an exception left
                    \* generate_dxf_from_nc_text; "idle" outside the call
    idx,            \* position of the IK / BO emission loop
    msp,            \* primitives added to the modelspace, in order
    rnd,            \* last-place rounding of math.tan on this platform (0 or 1)
    candidates,     \* main: the names of the candidate files, in glob order
    nfile,          \* main: number of candidates the for loop has finished
    renamed,        \* main: counter
    dxf_ok,         \* main: counter
    dxf_err,        \* main: counter
    bpc,            \* main: "license", "folder"; "read", "rename", "gen" within an
                    \* iteration; "summary"; "exit", "empty": main() was left early
    log,            \* what happened to each candidate, in order
    lic,            \* program.lic as verify_license_or_exit finds it
    today,          \* date.today()
    folder,         \* what askdirectory and the glob answer
    payload,        \* main: lic, the payload verify_license_or_exit returned
    fs,             \* the NC files of the folder: name -> file
    dxfs,           \* the DXF files of the folder: name -> drawing
    txt,            \* main: the text read from the candidate in hand
    final_nc_path   \* main: the name of the candidate after the rename block

\* The variables of main()
batch == <<candidates, nfile, renamed, dxf_ok, dxf_err, bpc, log, lic, today,
           folder, payload, fs, dxfs, txt, final_nc_path>>

vars == <<lines, i, cur_tag, cur, yielded, discarded, outer_pts,
          inner_contours, bo_items, pc, idx, msp, rnd, batch>>

----------------------------------------------------------------------------
(* Characters                                                              *)

Digit == {"0", "1", "2", "3", "4", "5", "6", "7", "8", "9"}

Upper == {"A", "B", "C", "D", "E", "F", "G", "H", "I", "J", "K", "L", "M",
          "N", "O", "P", "Q", "R", "S", "T", "U", "V", "W", "X", "Y", "Z"}

Space == {" ", "\t", "\n", "\r"}

DigitVal(c) ==
    CASE c = "0" -> 0 [] c = "1" -> 1 [] c = "2" -> 2 [] c = "3" -> 3
      [] c = "4" -> 4 [] c = "5" -> 5 [] c = "6" -> 6 [] c = "7" -> 7
      [] c = "8" -> 8 [] c = "9" -> 9

NoTag == <<>>
AK == <<"A", "K">>
IK == <<"I", "K">>
BO == <<"B", "O">>
EN == <<"E", "N">>

\* str.strip(): leading and trailing whitespace removed
RECURSIVE LStrip(_)
LStrip(s) == IF s # <<>> /\ Head(s) \in Space THEN LStrip(Tail(s)) ELSE s

RECURSIVE RStrip(_)
RStrip(s) ==
    IF s # <<>> /\ s[Len(s)] \in Space THEN RStrip(SubSeq(s, 1, Len(s) - 1)) ELSE s

Strip(s) == RStrip(LStrip(s))

\* The number of whitespace characters s ends with (the \s* of TAG_RE)
RECURSIVE TrailingSpaces(_)
TrailingSpaces(s) ==
    IF s # <<>> /\ s[Len(s)] \in Space
    THEN 1 + TrailingSpaces(SubSeq(s, 1, Len(s) - 1)) ELSE 0

\* TAG_RE.fullmatch(s): ^[A-Z]{2}\s*$
TagMatch(s) ==
    /\ Len(s) >= 2
    /\ s[1] \in Upper
    /\ s[2] \in Upper
    /\ TrailingSpaces(s) = Len(s) - 2

----------------------------------------------------------------------------
(* FLOAT_RE and fnum                                                       *)

\* The end of the run of digits of ln starting at p (p itself when none)
RECURSIVE DigitsEnd(_, _)
DigitsEnd(ln, p) ==
    IF p <= Len(ln) /\ ln[p] \in Digit THEN DigitsEnd(ln, p + 1) ELSE p

\* FLOAT_RE matched at position p: the position after the match, 0 when
\* [+-]?\d+(?:[.,]\d+)? does not match there.
MatchAt(ln, p) ==
    LET q  == IF ln[p] \in {"+", "-"} THEN p + 1 ELSE p
        e1 == DigitsEnd(ln, q)
        e2 == IF e1 <= Len(ln) /\ ln[e1] \in {".", ","}
              THEN DigitsEnd(ln, e1 + 1) ELSE e1
    IN IF e1 = q THEN 0
       ELSE IF e2 > e1 + 1 THEN e2 ELSE e1

\* re.findall(FLOAT_RE, ln): the leftmost non-overlapping matches from p on
RECURSIVE FindAllFrom(_, _)
FindAllFrom(ln, p) ==
    IF p > Len(ln) THEN <<>>
    ELSE LET e == MatchAt(ln, p)
         IN IF e = 0 THEN FindAllFrom(ln, p + 1)
            ELSE <<SubSeq(ln, p, e - 1)>> \o FindAllFrom(ln, e)

FindAll(ln) == FindAllFrom(ln, 1)

RECURSIVE DigitsValue(_, _)
DigitsValue(ds, acc) ==
    IF ds = <<>> THEN acc ELSE DigitsValue(Tail(ds), acc * 10 + DigitVal(Head(ds)))

RECURSIVE Pow10(_)
Pow10(n) == IF n = 0 THEN 1 ELSE 10 * Pow10(n - 1)

\* A decimal without trailing zeros in its fraction
RECURSIVE Norm(_)
Norm(d) ==
    IF d.m = 0 THEN [m |-> 0, f |-> 0]
    ELSE IF d.f > 0 /\ d.m % 10 = 0 THEN Norm([m |-> d.m \div 10, f |-> d.f - 1])
    ELSE d

\* The position of the decimal separator of token s, 0 when it has none
RECURSIVE SepPos(_, _)
SepPos(s, p) ==
    IF p > Len(s) THEN 0
    ELSE IF s[p] \in {".", ","} THEN p ELSE SepPos(s, p + 1)

\* fnum(s) = float(s.replace(",", ".")) of a FLOAT_RE token
fnum(s) ==
    LET neg  == s[1] = "-"
        body == IF s[1] \in {"+", "-"} THEN Tail(s) ELSE s
        sp   == SepPos(body, 1)
        ip   == IF sp = 0 THEN body ELSE SubSeq(body, 1, sp - 1)
        fp   == IF sp = 0 THEN <<>> ELSE SubSeq(body, sp + 1, Len(body))
        mag  == DigitsValue(ip \o fp, 0)
    IN Norm([m |-> IF neg THEN -mag ELSE mag, f |-> Len(fp)])

Zero == [m |-> 0, f |-> 0]

----------------------------------------------------------------------------
(* Curvature-point extractor and bore classifier                           *)

\* Faulty variant of parse_points_k: a point needs three tokens
RECURSIVE parse_points_k_three(_)
parse_points_k_three(block_lines) ==
    IF block_lines = <<>> THEN <<>>
    ELSE LET nums == FindAll(Head(block_lines))
             rest == parse_points_k_three(Tail(block_lines))
         IN IF Len(nums) >= 3
            THEN <<[x |-> fnum(nums[1]), y |-> fnum(nums[2]),
                    k |-> fnum(nums[3])]>> \o rest
            ELSE rest

\* Faulty variant of parse_points_k: the first malformed line ends the block
RECURSIVE parse_points_k_abort(_)
parse_points_k_abort(block_lines) ==
    IF block_lines = <<>> THEN <<>>
    ELSE LET nums == FindAll(Head(block_lines))
             rest == parse_points_k_abort(Tail(block_lines))
         IN IF Len(nums) >= 2
            THEN <<[x |-> fnum(nums[1]), y |-> fnum(nums[2]),
                    k |-> IF Len(nums) >= 3 THEN fnum(nums[3]) ELSE Zero]>> \o rest
            ELSE <<>>

\* parse_points_k(block_lines)
RECURSIVE parse_points_k(_)
parse_points_k(block_lines) ==
    IF block_lines = <<>> THEN <<>>
    ELSE LET nums == FindAll(Head(block_lines))
             rest == parse_points_k(Tail(block_lines))
         IN IF Len(nums) >= 2
            THEN <<[x |-> fnum(nums[1]), y |-> fnum(nums[2]),
                    k |-> IF Len(nums) >= 3 THEN fnum(nums[3]) ELSE Zero]>> \o rest
            ELSE rest

\* Faulty variant of is_slot: "l" in ln
is_slot_case_sensitive(ln) == \E p \in 1..Len(ln) : ln[p] = "l"

\* "l" in ln.lower()
is_slot(ln) == \E p \in 1..Len(ln) : ln[p] \in {"l", "L"}

----------------------------------------------------------------------------
(* Decimal arithmetic on parsed numbers                                    *)

Max(a, b) == IF a >= b THEN a ELSE b
Min(a, b) == IF a <= b THEN a ELSE b
Abs(a) == IF a < 0 THEN -a ELSE a
Sign(a) == IF a < 0 THEN -1 ELSE IF a > 0 THEN 1 ELSE 0

\* m * 10^k, for k >= 0
Shift(m, k) == IF m = 0 THEN 0 ELSE m * Pow10(k)

\* a - b
DecSub(a, b) ==
    LET f == Max(a.f, b.f)
    IN Norm([m |-> Shift(a.m, f - a.f) - Shift(b.m, f - b.f), f |-> f])

\* abs(a)
DecAbs(a) == [m |-> Abs(a.m), f |-> a.f]

\* EPS = 1e-9 is 1 / 10^EpsDigits
EpsDigits == 9

\* abs(a) < EPS, for a decimal a: |m| / 10^f < 1 / 10^9
AbsLtEps(a) ==
    \/ a.m = 0
    \/ a.f > EpsDigits /\ Abs(a.m) < Pow10(a.f - EpsDigits)

----------------------------------------------------------------------------
(* Fixed-point sqrt, asin, tan                                             *)

\* Lengths: units of 1 / 10^LDigits
LDigits == 6

\* Angles and ratios: units of 1 / Scale, Scale = Base * Base
Base == 10000
Scale == Base * Base

\* pi / 2 in units of 1 / Scale, rounded down as the double nearest pi/2 is
HalfPi == 157079632

\* floor(sqrt(n)) of a natural number, counting up from y
RECURSIVE IsqrtFrom(_, _)
IsqrtFrom(n, y) == IF (y + 1) * (y + 1) > n THEN y ELSE IsqrtFrom(n, y + 1)

\* Digit-by-digit square root: y is the root so far, r the remainder
RECURSIVE SqrtDigits(_, _, _)
SqrtDigits(y, r, digits) ==
    IF digits = 0 THEN y
    ELSE LET r2 == r * 100
             x  == CHOOSE c \in 0..9 :
                      /\ (20 * y + c) * c <= r2
                      /\ (c = 9 \/ (20 * y + c + 1) * (c + 1) > r2)
         IN SqrtDigits(10 * y + x, r2 - (20 * y + x) * x, digits - 1)

\* floor(sqrt(n) * 10^digits)
SqrtFix(n, digits) ==
    LET y0 == IsqrtFrom(n, 0) IN SqrtDigits(y0, n - y0 * y0, digits)

\* math.dist(p1, p2) of two points with decimal coordinates, as a length
dist(p1, p2) ==
    LET dx == DecSub(p2.x, p1.x)
        dy == DecSub(p2.y, p1.y)
        f  == Max(dx.f, dy.f)
        mx == dx.m * Pow10(f - dx.f)
        my == dy.m * Pow10(f - dy.f)
    IN SqrtFix(mx * mx + my * my, LDigits - f)

\* floor(a * b / Scale) for 0 <= a, b without leaving 32 bits
MulFix(a, b) ==
    LET a1 == a \div Base  a0 == a % Base
        b1 == b \div Base  b0 == b % Base
    IN a1 * b1 + ((a1 * b0 + a0 * b1 + ((a0 * b0) \div Base)) \div Base)

\* Long division: n more decimal digits of r / b, 0 <= r < b
RECURSIVE DivDigits(_, _, _, _)
DivDigits(r, b, n, acc) ==
    IF n = 0 THEN acc
    ELSE DivDigits((r * 10) % b, b, n - 1, acc * 10 + ((r * 10) \div b))

\* floor(a * Scale / b) for 0 <= a and 0 < b
DivFix(a, b) == (a \div b) * Scale + DivDigits(a % b, b, 8, 0)

\* sin and cos by their power series; term is the last term added
RECURSIVE Series(_, _, _, _, _)
Series(x2, term, k, acc, sgn) ==
    IF term = 0 THEN acc
    ELSE LET t == MulFix(term, x2) \div (k * (k + 1))
         IN Series(x2, t, k + 2, acc + sgn * t, -sgn)

Sin(x) == Series(MulFix(x, x), x, 2, x, -1)
Cos(x) == Series(MulFix(x, x), Scale, 1, Scale, -1)

\* tan on [0, pi/4]
Tan(x) == DivFix(Sin(x), Cos(x))

\* The largest angle in [lo, hi) whose sine is at most a
RECURSIVE AsinBisect(_, _, _)
AsinBisect(a, lo, hi) ==
    IF hi - lo <= 1 THEN lo
    ELSE LET mid == (lo + hi) \div 2
         IN IF Sin(mid) <= a THEN AsinBisect(a, mid, hi) ELSE AsinBisect(a, lo, mid)

\* math.asin on [0, 1]
Asin(a) == IF a >= Scale THEN HalfPi ELSE AsinBisect(a, 0, HalfPi)

\* The largest angle in [lo, hi) whose tangent is at most b
RECURSIVE AtanBisect(_, _, _)
AtanBisect(b, lo, hi) ==
    IF hi - lo <= 1 THEN lo
    ELSE LET mid == (lo + hi) \div 2
         IN IF Tan(mid) <= b THEN AtanBisect(b, mid, hi) ELSE AtanBisect(b, lo, mid)

\* math.atan on [0, 1]
Atan(b) == AtanBisect(b, 0, (HalfPi \div 2) + 2)

\* The marker of a call that raised (ValueError, ZeroDivisionError): no
\* length, ratio, angle or bulge has this value
Raised == 4 * Scale

\* d / (2.0 * r) for a length d >= 0 and a decimal r >= 0, as a ratio:
\* (d / 10^LDigits) / (2 m / 10^f), numerator and denominator in one unit.
\* Every quotient above 1.0 is given as Scale + 1: the code only compares it
\* with 1.0.  A zero divisor raises ZeroDivisionError.
Ratio(d, r) ==
    LET den == IF r.f <= LDigits THEN 2 * r.m * Pow10(LDigits - r.f) ELSE 2 * r.m
        big == r.f > LDigits /\ d >= 2 * r.m
        num == IF r.f <= LDigits \/ big THEN d ELSE d * Pow10(r.f - LDigits)
    IN IF r.m = 0 THEN Raised
       ELSE IF big \/ num > den THEN Scale + 1
       ELSE IF num = den THEN Scale
       ELSE DivDigits(num, den, 8, 0)

\* math.asin(a): ValueError outside [-1, 1]
asin(a) == IF Abs(a) > Scale THEN Raised ELSE Sign(a) * Asin(Abs(a))

----------------------------------------------------------------------------
(* Bulge geometry engine                                                   *)

\* math.tan of this platform on [0, pi/4]: exact at 0, otherwise one of the
\* two representable neighbours of the tangent
tan(x) == LET t == Tan(x) IN IF t = 0 THEN 0 ELSE t - rnd

\* Faulty variant of bulge_from_points_radius: the direction flag is ignored
bulge_ignoring_ccw(p1, p2, r, ccw) ==
    LET d == dist(p1, p2)
    IN IF AbsLtEps(r) THEN 0
       ELSE LET q   == Ratio(d, r)
                arg == Max(-Scale, Min(Scale, q))
                as  == asin(arg)
            IN IF q = Raised \/ as = Raised THEN Raised
               ELSE tan((2 * as) \div 4)

\* Faulty variant of bulge_from_points_radius: theta = asin(arg), the factor 2 lost
bulge_half_theta(p1, p2, r, ccw) ==
    LET d == dist(p1, p2)
    IN IF AbsLtEps(r) THEN 0
       ELSE LET q   == Ratio(d, r)
                arg == Max(-Scale, Min(Scale, q))
                as  == asin(arg)
                b   == tan(as \div 4)
            IN IF q = Raised \/ as = Raised THEN Raised
               ELSE IF ccw THEN b ELSE -b

\* Faulty variant of bulge_from_points_radius: the asin argument is not clamped
bulge_unclamped(p1, p2, r, ccw) ==
    LET d == dist(p1, p2)
    IN IF AbsLtEps(r) THEN 0
       ELSE LET q   == Ratio(d, r)
                as  == asin(q)
                b   == tan((2 * as) \div 4)
            IN IF q = Raised \/ as = Raised THEN Raised
               ELSE IF ccw THEN b ELSE -b

\* bulge_from_points_radius(p1, p2, r, ccw): r is a decimal >= 0, the result
\* a signed ratio in units of 1 / Scale, or Raised.
bulge_from_points_radius(p1, p2, r, ccw) ==
    LET d == dist(p1, p2)
    IN IF AbsLtEps(r) THEN 0
       ELSE LET q   == Ratio(d, r)
                arg == Max(-Scale, Min(Scale, q))
                as  == asin(arg)
                b   == tan((2 * as) \div 4)
            IN IF q = Raised \/ as = Raised THEN Raised
               ELSE IF ccw THEN b ELSE -b

\* Faulty variant of build_xyb_from_points: a vertex carries its successor's (x, y)
build_xyb_successor_xy(pts) ==
    LET n == Len(pts)
    IN IF n < 2 THEN <<>>
       ELSE [j \in 1..n |->
               LET p  == pts[j]
                   p2 == pts[(j % n) + 1]
               IN [x |-> p2.x, y |-> p2.y, b |-> 0]]

\* build_xyb_from_points(pts): the vertex list; a vertex whose b is Raised
\* stands for the exception that left the loop there
build_xyb_from_points(pts) ==
    LET n == Len(pts)
    IN IF n < 2 THEN <<>>
       ELSE [j \in 1..n |->
               LET p  == pts[j]
                   p2 == pts[(j % n) + 1]
               IN [x |-> p.x, y |-> p.y,
                   b |-> IF AbsLtEps(p.k) THEN 0
                         ELSE bulge_from_points_radius(p, p2, DecAbs(p.k), p.k.m > 0)]]

----------------------------------------------------------------------------
(* Bore records and slot capsule                                           *)

\* a + b
DecAdd(a, b) ==
    LET f == Max(a.f, b.f)
    IN Norm([m |-> Shift(a.m, f - a.f) + Shift(b.m, f - b.f), f |-> f])

\* a / 2.0
DecHalf(a) == Norm([m |-> a.m * 5, f |-> a.f + 1])

\* Faulty variant of bo_records: the slot vector is read one token early
RECURSIVE bo_records_fourth(_)
bo_records_fourth(block_lines) ==
    IF block_lines = <<>> THEN <<>>
    ELSE LET ln   == Head(block_lines)
             nums == FindAll(ln)
             rest == bo_records_fourth(Tail(block_lines))
         IN IF is_slot(ln) /\ Len(nums) >= 6
            THEN LET x == fnum(nums[1])  y == fnum(nums[2])
                     dx == fnum(nums[4]) dy == fnum(nums[5])
                 IN <<[kind |-> "slot", c1 |-> [x |-> x, y |-> y],
                       c2 |-> [x |-> DecAdd(x, dx), y |-> DecAdd(y, dy)],
                       dia |-> fnum(nums[3])]>> \o rest
            ELSE IF Len(nums) >= 3
            THEN <<[kind |-> "circle",
                    c1 |-> [x |-> fnum(nums[1]), y |-> fnum(nums[2])],
                    dia |-> fnum(nums[3])]>> \o rest
            ELSE rest

\* The BO branch of generate_dxf_from_nc_text: the records of the block's lines
RECURSIVE bo_records(_)
bo_records(block_lines) ==
    IF block_lines = <<>> THEN <<>>
    ELSE LET ln   == Head(block_lines)
             nums == FindAll(ln)
             rest == bo_records(Tail(block_lines))
         IN IF is_slot(ln) /\ Len(nums) >= 6
            THEN LET x == fnum(nums[1])  y == fnum(nums[2])
                     dx == fnum(nums[5]) dy == fnum(nums[6])
                 IN <<[kind |-> "slot", c1 |-> [x |-> x, y |-> y],
                       c2 |-> [x |-> DecAdd(x, dx), y |-> DecAdd(y, dy)],
                       dia |-> fnum(nums[3])]>> \o rest
            ELSE IF Len(nums) >= 3
            THEN <<[kind |-> "circle",
                    c1 |-> [x |-> fnum(nums[1]), y |-> fnum(nums[2])],
                    dia |-> fnum(nums[3])]>> \o rest
            ELSE rest

\* A decimal as a length in units of 1 / 10^LDigits
ToLen(a) ==
    IF a.f <= LDigits THEN a.m * Pow10(LDigits - a.f)
    ELSE a.m \div Pow10(a.f - LDigits)

\* |a| / sqrt(n) as a ratio in units of 1 / Scale, for |a| <= sqrt(n)
UnitRatio(a, n) ==
    LET len == SqrtFix(n, 4)
        num == Abs(a) * Base
    IN IF num >= len THEN Scale ELSE DivDigits(num, len, 8, 0)

\* Faulty variant of add_slot_capsule: the bulges sit on the straight edges
add_slot_capsule_bulge_first(c1, c2, dia, layer) ==
    LET r   == DecHalf(dia)
        dx  == DecSub(c2.x, c1.x)
        dy  == DecSub(c2.y, c1.y)
        f   == Max(dx.f, dy.f)
        mx  == Shift(dx.m, f - dx.f)
        my  == Shift(dy.m, f - dy.f)
        n   == mx * mx + my * my
        \* L = hypot(dx, dy) < EPS: n / 10^(2f) < 1 / 10^18
        LltEps == n = 0 \/ (f > EpsDigits /\ n < Pow10(2 * (f - EpsDigits)))
        \* nx * r and ny * r as lengths, nx = -dy / L, ny = dx / L
        nxr == -Sign(my) * MulFix(UnitRatio(my, n), Abs(ToLen(r))) * Sign(r.m)
        nyr == Sign(mx) * MulFix(UnitRatio(mx, n), Abs(ToLen(r))) * Sign(r.m)
        x1  == ToLen(c1.x)  y1 == ToLen(c1.y)
        x2  == ToLen(c2.x)  y2 == ToLen(c2.y)
    IN IF LltEps
       THEN IF r.m > 0
            THEN <<[layer |-> layer, kind |-> "CIRCLE", center |-> c1, radius |-> r]>>
            ELSE <<>>
       ELSE <<[layer |-> layer, kind |-> "LWPOLYLINE", close |-> TRUE, from |-> "slot",
               verts |-> << [x |-> x1 - nxr, y |-> y1 - nyr, b |-> Scale],
                            [x |-> x2 - nxr, y |-> y2 - nyr, b |-> 0],
                            [x |-> x2 + nxr, y |-> y2 + nyr, b |-> Scale],
                            [x |-> x1 + nxr, y |-> y1 + nyr, b |-> 0] >>]>>

\* Faulty variant of add_slot_capsule: the normal points to the right of the axis
add_slot_capsule_cw(c1, c2, dia, layer) ==
    LET r   == DecHalf(dia)
        dx  == DecSub(c2.x, c1.x)
        dy  == DecSub(c2.y, c1.y)
        f   == Max(dx.f, dy.f)
        mx  == Shift(dx.m, f - dx.f)
        my  == Shift(dy.m, f - dy.f)
        n   == mx * mx + my * my
        \* L = hypot(dx, dy) < EPS: n / 10^(2f) < 1 / 10^18
        LltEps == n = 0 \/ (f > EpsDigits /\ n < Pow10(2 * (f - EpsDigits)))
        \* nx * r and ny * r as lengths, nx = -dy / L, ny = dx / L
        nxr == Sign(my) * MulFix(UnitRatio(my, n), Abs(ToLen(r))) * Sign(r.m)
        nyr == -Sign(mx) * MulFix(UnitRatio(mx, n), Abs(ToLen(r))) * Sign(r.m)
        x1  == ToLen(c1.x)  y1 == ToLen(c1.y)
        x2  == ToLen(c2.x)  y2 == ToLen(c2.y)
    IN IF LltEps
       THEN IF r.m > 0
            THEN <<[layer |-> layer, kind |-> "CIRCLE", center |-> c1, radius |-> r]>>
            ELSE <<>>
       ELSE <<[layer |-> layer, kind |-> "LWPOLYLINE", close |-> TRUE, from |-> "slot",
               verts |-> << [x |-> x1 - nxr, y |-> y1 - nyr, b |-> 0],
                            [x |-> x2 - nxr, y |-> y2 - nyr, b |-> Scale],
                            [x |-> x2 + nxr, y |-> y2 + nyr, b |-> 0],
                            [x |-> x1 + nxr, y |-> y1 + nyr, b |-> Scale] >>]>>

\* Faulty variant of add_slot_capsule: the circle is added whatever its radius
add_slot_capsule_no_guard(c1, c2, dia, layer) ==
    LET r   == DecHalf(dia)
        dx  == DecSub(c2.x, c1.x)
        dy  == DecSub(c2.y, c1.y)
        f   == Max(dx.f, dy.f)
        mx  == Shift(dx.m, f - dx.f)
        my  == Shift(dy.m, f - dy.f)
        n   == mx * mx + my * my
        \* L = hypot(dx, dy) < EPS: n / 10^(2f) < 1 / 10^18
        LltEps == n = 0 \/ (f > EpsDigits /\ n < Pow10(2 * (f - EpsDigits)))
        \* nx * r and ny * r as lengths, nx = -dy / L, ny = dx / L
        nxr == -Sign(my) * MulFix(UnitRatio(my, n), Abs(ToLen(r))) * Sign(r.m)
        nyr == Sign(mx) * MulFix(UnitRatio(mx, n), Abs(ToLen(r))) * Sign(r.m)
        x1  == ToLen(c1.x)  y1 == ToLen(c1.y)
        x2  == ToLen(c2.x)  y2 == ToLen(c2.y)
    IN IF LltEps
       THEN <<[layer |-> layer, kind |-> "CIRCLE", center |-> c1, radius |-> r]>>
       ELSE <<[layer |-> layer, kind |-> "LWPOLYLINE", close |-> TRUE, from |-> "slot",
               verts |-> << [x |-> x1 - nxr, y |-> y1 - nyr, b |-> 0],
                            [x |-> x2 - nxr, y |-> y2 - nyr, b |-> Scale],
                            [x |-> x2 + nxr, y |-> y2 + nyr, b |-> 0],
                            [x |-> x1 + nxr, y |-> y1 + nyr, b |-> Scale] >>]>>

\* add_slot_capsule(msp, c1, c2, dia, layer): the primitives it adds
add_slot_capsule(c1, c2, dia, layer) ==
    LET r   == DecHalf(dia)
        dx  == DecSub(c2.x, c1.x)
        dy  == DecSub(c2.y, c1.y)
        f   == Max(dx.f, dy.f)
        mx  == Shift(dx.m, f - dx.f)
        my  == Shift(dy.m, f - dy.f)
        n   == mx * mx + my * my
        \* L = hypot(dx, dy) < EPS: n / 10^(2f) < 1 / 10^18
        LltEps == n = 0 \/ (f > EpsDigits /\ n < Pow10(2 * (f - EpsDigits)))
        \* nx * r and ny * r as lengths, nx = -dy / L, ny = dx / L
        nxr == -Sign(my) * MulFix(UnitRatio(my, n), Abs(ToLen(r))) * Sign(r.m)
        nyr == Sign(mx) * MulFix(UnitRatio(mx, n), Abs(ToLen(r))) * Sign(r.m)
        x1  == ToLen(c1.x)  y1 == ToLen(c1.y)
        x2  == ToLen(c2.x)  y2 == ToLen(c2.y)
    IN IF LltEps
       THEN IF r.m > 0
            THEN <<[layer |-> layer, kind |-> "CIRCLE", center |-> c1, radius |-> r]>>
            ELSE <<>>
       ELSE <<[layer |-> layer, kind |-> "LWPOLYLINE", close |-> TRUE, from |-> "slot",
               verts |-> << [x |-> x1 - nxr, y |-> y1 - nyr, b |-> 0],
                            [x |-> x2 - nxr, y |-> y2 - nyr, b |-> Scale],
                            [x |-> x2 + nxr, y |-> y2 + nyr, b |-> 0],
                            [x |-> x1 + nxr, y |-> y1 + nyr, b |-> Scale] >>]>>

----------------------------------------------------------------------------
(* tokenize_blocks driving the block loop of generate_dxf_from_nc_text     *)

\* Faulty variant of HandleBlock: an inner contour is put before the others
HandleBlock_Prepend(tag, block_lines) ==
    /\ yielded' = Append(yielded, [tag |-> tag, lines |-> block_lines])
    /\ IF tag = AK
       THEN /\ outer_pts' = [some |-> TRUE, pts |-> parse_points_k(block_lines)]
            /\ UNCHANGED <<inner_contours, bo_items>>
       ELSE IF tag = IK
       THEN /\ inner_contours' =
                 LET pts == parse_points_k(block_lines)
                 IN IF pts # <<>> THEN <<pts>> \o inner_contours ELSE inner_contours
            /\ UNCHANGED <<outer_pts, bo_items>>
       ELSE IF tag = BO
       THEN /\ bo_items' = bo_items \o bo_records(block_lines)
            /\ UNCHANGED <<outer_pts, inner_contours>>
       ELSE UNCHANGED <<outer_pts, inner_contours, bo_items>>

\* Faulty variant of HandleBlock: an AK block with fewer than two points does
\* not replace the points of an earlier AK block
HandleBlock_KeepValid(tag, block_lines) ==
    /\ yielded' = Append(yielded, [tag |-> tag, lines |-> block_lines])
    /\ IF tag = AK
       THEN /\ outer_pts' =
                 LET pts == parse_points_k(block_lines)
                 IN IF Len(pts) < 2 /\ outer_pts.some THEN outer_pts
                    ELSE [some |-> TRUE, pts |-> pts]
            /\ UNCHANGED <<inner_contours, bo_items>>
       ELSE IF tag = IK
       THEN /\ inner_contours' =
                 LET pts == parse_points_k(block_lines)
                 IN IF pts # <<>> THEN Append(inner_contours, pts) ELSE inner_contours
            /\ UNCHANGED <<outer_pts, bo_items>>
       ELSE IF tag = BO
       THEN /\ bo_items' = bo_items \o bo_records(block_lines)
            /\ UNCHANGED <<outer_pts, inner_contours>>
       ELSE UNCHANGED <<outer_pts, inner_contours, bo_items>>

\* The body of "for tag, lines in tokenize_blocks(txt)" for one yielded block
HandleBlock(tag, block_lines) ==
    /\ yielded' = Append(yielded, [tag |-> tag, lines |-> block_lines])
    /\ IF tag = AK
       THEN /\ outer_pts' = [some |-> TRUE, pts |-> parse_points_k(block_lines)]
            /\ UNCHANGED <<inner_contours, bo_items>>
       ELSE IF tag = IK
       THEN /\ inner_contours' =
                 LET pts == parse_points_k(block_lines)
                 IN IF pts # <<>> THEN Append(inner_contours, pts) ELSE inner_contours
            /\ UNCHANGED <<outer_pts, bo_items>>
       ELSE IF tag = BO
       THEN /\ bo_items' = bo_items \o bo_records(block_lines)
            /\ UNCHANGED <<outer_pts, inner_contours>>
       ELSE UNCHANGED <<outer_pts, inner_contours, bo_items>>

NoBlock == UNCHANGED <<yielded, outer_pts, inner_contours, bo_items>>

\* Faulty variant of TagLine: the loop does not break on "EN"
TagLine_NoBreak ==
    /\ pc = "tok"
    /\ i < Len(lines)
    /\ LET s == Strip(lines[i + 1])
       IN /\ TagMatch(s)
          /\ IF cur_tag # NoTag THEN HandleBlock(cur_tag, cur) ELSE NoBlock
          /\ cur' = <<>>
          /\ cur_tag' = s
          /\ pc' = "tok"
    /\ i' = i + 1
    /\ UNCHANGED <<lines, discarded, idx, msp, rnd, batch>>

\* One iteration of the for loop of tokenize_blocks over a tag line; the
\* block it closes is yielded and handled before the generator resumes.
\* On "EN" the loop breaks and the generator returns without another yield.
TagLine ==
    /\ pc = "tok"
    /\ i < Len(lines)
    /\ LET s == Strip(lines[i + 1])
       IN /\ TagMatch(s)
          /\ IF cur_tag # NoTag THEN HandleBlock(cur_tag, cur) ELSE NoBlock
          /\ cur' = <<>>
          /\ cur_tag' = s
          /\ pc' = IF s = EN THEN "outer" ELSE "tok"
    /\ i' = i + 1
    /\ UNCHANGED <<lines, discarded, idx, msp, rnd, batch>>

\* Faulty variant of DataLine: blank lines are not appended to the open block
DataLine_SkipBlank ==
    /\ pc = "tok"
    /\ i < Len(lines)
    /\ ~TagMatch(Strip(lines[i + 1]))
    /\ IF cur_tag # NoTag
       THEN /\ cur' = IF Strip(lines[i + 1]) = <<>> THEN cur
                      ELSE Append(cur, lines[i + 1])
            /\ UNCHANGED discarded
       ELSE discarded' = Append(discarded, lines[i + 1]) /\ UNCHANGED cur
    /\ i' = i + 1
    /\ UNCHANGED <<lines, cur_tag, yielded, outer_pts, inner_contours, bo_items,
                   pc, idx, msp, rnd, batch>>

\* One iteration of the for loop over a line that is no tag
DataLine ==
    /\ pc = "tok"
    /\ i < Len(lines)
    /\ ~TagMatch(Strip(lines[i + 1]))
    /\ IF cur_tag # NoTag
       THEN cur' = Append(cur, lines[i + 1]) /\ UNCHANGED discarded
       ELSE discarded' = Append(discarded, lines[i + 1]) /\ UNCHANGED cur
    /\ i' = i + 1
    /\ UNCHANGED <<lines, cur_tag, yielded, outer_pts, inner_contours, bo_items,
                   pc, idx, msp, rnd, batch>>

\* Faulty variant of EndOfText: the block still open is not yielded
EndOfText_NoYield ==
    /\ pc = "tok"
    /\ i = Len(lines)
    /\ NoBlock
    /\ pc' = "outer"
    /\ UNCHANGED <<lines, i, cur_tag, cur, discarded, idx, msp, rnd, batch>>

\* The lines are exhausted: the block still open is yielded and handled
EndOfText ==
    /\ pc = "tok"
    /\ i = Len(lines)
    /\ IF cur_tag # NoTag /\ cur_tag # EN THEN HandleBlock(cur_tag, cur) ELSE NoBlock
    /\ pc' = "outer"
    /\ UNCHANGED <<lines, i, cur_tag, cur, discarded, idx, msp, rnd, batch>>

----------------------------------------------------------------------------
(* Drawing assembler                                                       *)

\* build_xyb_from_points raised instead of returning verts
Raises(verts) == \E j \in 1..Len(verts) : verts[j].b = Raised

\* The primitive e, marked with the position k its source has in the list the
\* assembler iterates over (0 for the outer contour)
Item(e, k) ==
    [f \in DOMAIN e \cup {"item"} |-> IF f = "item" THEN k ELSE e[f]]

\* The primitives es, each marked with position k
Items(es, k) == [j \in 1..Len(es) |-> Item(es[j], k)]

Polyline(layer, verts, from) ==
    [layer |-> layer, kind |-> "LWPOLYLINE", close |-> TRUE, from |-> from,
     verts |-> verts]

\* Faulty variant of EmitOuter: a text without outer contour is an error
EmitOuter_RequireAK ==
    /\ pc = "outer"
    /\ LET verts == build_xyb_from_points(outer_pts.pts)
           call  == outer_pts.some /\ outer_pts.pts # <<>>
       IN /\ msp' = IF call /\ verts # <<>> /\ ~Raises(verts)
                    THEN Append(msp, Item(Polyline("OUTER", verts, "AK"), 0))
                    ELSE msp
          /\ pc' = IF ~call \/ Raises(verts) THEN "raised" ELSE "ik"
    /\ idx' = 1
    /\ UNCHANGED <<lines, i, cur_tag, cur, yielded, discarded, outer_pts,
                   inner_contours, bo_items, rnd, batch>>

\* "if outer_pts: verts = build_xyb_from_points(outer_pts); if verts: add"
EmitOuter ==
    /\ pc = "outer"
    /\ LET verts == build_xyb_from_points(outer_pts.pts)
           call  == outer_pts.some /\ outer_pts.pts # <<>>
       IN /\ msp' = IF call /\ verts # <<>> /\ ~Raises(verts)
                    THEN Append(msp, Item(Polyline("OUTER", verts, "AK"), 0))
                    ELSE msp
          /\ pc' = IF call /\ Raises(verts) THEN "raised" ELSE "ik"
    /\ idx' = 1
    /\ UNCHANGED <<lines, i, cur_tag, cur, yielded, discarded, outer_pts,
                   inner_contours, bo_items, rnd, batch>>

\* Faulty variant of EmitInner: the inner contour is put on OUTER
EmitInner_OnOuter ==
    /\ pc = "ik"
    /\ idx <= Len(inner_contours)
    /\ LET iverts == build_xyb_from_points(inner_contours[idx])
       IN /\ msp' = IF iverts # <<>> /\ ~Raises(iverts)
                    THEN Append(msp, Item(Polyline("OUTER", iverts, "IK"), idx))
                    ELSE msp
          /\ pc' = IF Raises(iverts) THEN "raised" ELSE "ik"
    /\ idx' = idx + 1
    /\ UNCHANGED <<lines, i, cur_tag, cur, yielded, discarded, outer_pts,
                   inner_contours, bo_items, rnd, batch>>

\* One iteration of "for pts in inner_contours"
EmitInner ==
    /\ pc = "ik"
    /\ idx <= Len(inner_contours)
    /\ LET iverts == build_xyb_from_points(inner_contours[idx])
       IN /\ msp' = IF iverts # <<>> /\ ~Raises(iverts)
                    THEN Append(msp, Item(Polyline("cutout", iverts, "IK"), idx))
                    ELSE msp
          /\ pc' = IF Raises(iverts) THEN "raised" ELSE "ik"
    /\ idx' = idx + 1
    /\ UNCHANGED <<lines, i, cur_tag, cur, yielded, discarded, outer_pts,
                   inner_contours, bo_items, rnd, batch>>

\* The IK loop is exhausted: the BO loop starts
InnerDone ==
    /\ pc = "ik"
    /\ idx > Len(inner_contours)
    /\ pc' = "bo"
    /\ idx' = 1
    /\ UNCHANGED <<lines, i, cur_tag, cur, yielded, discarded, outer_pts,
                   inner_contours, bo_items, msp, rnd, batch>>

\* Faulty variant of EmitBore: a hole is drawn whatever its radius
EmitBore_NoGuard ==
    /\ pc = "bo"
    /\ idx <= Len(bo_items)
    /\ LET item == bo_items[idx]
       IN msp' = IF item.kind = "circle"
                 THEN IF TRUE
                      THEN Append(msp, Item([layer |-> "cutout", kind |-> "CIRCLE",
                                             center |-> item.c1,
                                             radius |-> DecHalf(item.dia)], idx))
                      ELSE msp
                 ELSE msp \o Items(add_slot_capsule(item.c1, item.c2, item.dia,
                                                    "cutout"), idx)
    /\ idx' = idx + 1
    /\ UNCHANGED <<lines, i, cur_tag, cur, yielded, discarded, outer_pts,
                   inner_contours, bo_items, pc, rnd, batch>>

\* One iteration of "for item in bo_items"
EmitBore ==
    /\ pc = "bo"
    /\ idx <= Len(bo_items)
    /\ LET item == bo_items[idx]
       IN msp' = IF item.kind = "circle"
                 THEN IF DecHalf(item.dia).m > 0
                      THEN Append(msp, Item([layer |-> "cutout", kind |-> "CIRCLE",
                                             center |-> item.c1,
                                             radius |-> DecHalf(item.dia)], idx))
                      ELSE msp
                 ELSE msp \o Items(add_slot_capsule(item.c1, item.c2, item.dia,
                                                    "cutout"), idx)
    /\ idx' = idx + 1
    /\ UNCHANGED <<lines, i, cur_tag, cur, yielded, discarded, outer_pts,
                   inner_contours, bo_items, pc, rnd, batch>>

\* The BO loop is exhausted: the drawing is complete
BoreDone ==
    /\ pc = "bo"
    /\ idx > Len(bo_items)
    /\ pc' = "done"
    /\ UNCHANGED <<lines, i, cur_tag, cur, yielded, discarded, outer_pts,
                   inner_contours, bo_items, idx, msp, rnd, batch>>

----------------------------------------------------------------------------
(* The copies of the pipeline: Pomocnicze/nc1_to_dxf.py, Pomocnicze/ncTodxf.py *)

\* The sequences bs, one after the other
RECURSIVE Concat(_)
Concat(bs) == IF bs = <<>> THEN <<>> ELSE Head(bs) \o Concat(Tail(bs))

\* tokenize_blocks(text) of the copies, whose text is that of main.py: the
\* blocks yielded for the lines ls from line k on, tag and block being
\* cur_tag and cur
RECURSIVE tokenize_blocks(_, _, _, _)
tokenize_blocks(ls, k, tag, block) ==
    IF k > Len(ls)
    THEN IF tag # NoTag /\ tag # EN THEN <<[tag |-> tag, lines |-> block]>> ELSE <<>>
    ELSE LET s == Strip(ls[k])
         IN IF TagMatch(s)
            THEN (IF tag # NoTag THEN <<[tag |-> tag, lines |-> block]>> ELSE <<>>)
                 \o (IF s = EN THEN <<>> ELSE tokenize_blocks(ls, k + 1, s, <<>>))
            ELSE tokenize_blocks(ls, k + 1, tag,
                                 IF tag # NoTag THEN Append(block, ls[k]) ELSE block)

\* The locals of the copies before the first block
NoLocals ==
    [outer_pts |-> [some |-> FALSE, pts |-> <<>>], inner_contours |-> <<>>,
     bo_items |-> <<>>]

\* "for tag, lines in tokenize_blocks(txt)" of the copies: the locals loc
\* after the blocks bs
RECURSIVE BlockLoop(_, _)
BlockLoop(bs, loc) ==
    IF bs = <<>> THEN loc
    ELSE LET blk == Head(bs)
             pts == parse_points_k(blk.lines)
         IN BlockLoop(Tail(bs),
                IF blk.tag = AK
                THEN [loc EXCEPT !.outer_pts = [some |-> TRUE, pts |-> pts]]
                ELSE IF blk.tag = IK
                THEN IF pts # <<>>
                     THEN [loc EXCEPT !.inner_contours = Append(@, pts)]
                     ELSE loc
                ELSE IF blk.tag = BO
                THEN [loc EXCEPT !.bo_items = @ \o bo_records(blk.lines)]
                ELSE loc)

\* Faulty variant of nc1_to_dxf_add_slot_capsule: the normal is turned clockwise
nc1_to_dxf_add_slot_capsule_cw(c1, c2, dia, layer) ==
    LET r   == DecHalf(dia)
        dx  == DecSub(c2.x, c1.x)
        dy  == DecSub(c2.y, c1.y)
        f   == Max(dx.f, dy.f)
        mx  == Shift(dx.m, f - dx.f)
        my  == Shift(dy.m, f - dy.f)
        n   == mx * mx + my * my
        \* L = hypot(dx, dy) < EPS: n / 10^(2f) < 1 / 10^18
        LltEps == n = 0 \/ (f > EpsDigits /\ n < Pow10(2 * (f - EpsDigits)))
        \* vx, vy = dx / L, dy / L
        vx  == Sign(mx) * UnitRatio(mx, n)
        vy  == Sign(my) * UnitRatio(my, n)
        \* nx, ny = vy, -vx
        nx  == vy
        ny  == -vx
        \* nx * r and ny * r as lengths
        nxr == Sign(nx) * Sign(r.m) * MulFix(Abs(nx), Abs(ToLen(r)))
        nyr == Sign(ny) * Sign(r.m) * MulFix(Abs(ny), Abs(ToLen(r)))
        x1  == ToLen(c1.x)  y1 == ToLen(c1.y)
        x2  == ToLen(c2.x)  y2 == ToLen(c2.y)
    IN IF LltEps
       THEN IF r.m > 0
            THEN <<[layer |-> layer, kind |-> "CIRCLE", center |-> c1, radius |-> r]>>
            ELSE <<>>
       ELSE <<[layer |-> layer, kind |-> "LWPOLYLINE", close |-> TRUE, from |-> "slot",
               verts |-> << [x |-> x1 - nxr, y |-> y1 - nyr, b |-> 0],
                            [x |-> x2 - nxr, y |-> y2 - nyr, b |-> Scale],
                            [x |-> x2 + nxr, y |-> y2 + nyr, b |-> 0],
                            [x |-> x1 + nxr, y |-> y1 + nyr, b |-> Scale] >>]>>

\* add_slot_capsule of the copies (the same text in both): the axis vx, vy is
\* computed first and the normal is the axis turned by 90 degrees
nc1_to_dxf_add_slot_capsule(c1, c2, dia, layer) ==
    LET r   == DecHalf(dia)
        dx  == DecSub(c2.x, c1.x)
        dy  == DecSub(c2.y, c1.y)
        f   == Max(dx.f, dy.f)
        mx  == Shift(dx.m, f - dx.f)
        my  == Shift(dy.m, f - dy.f)
        n   == mx * mx + my * my
        \* L = hypot(dx, dy) < EPS: n / 10^(2f) < 1 / 10^18
        LltEps == n = 0 \/ (f > EpsDigits /\ n < Pow10(2 * (f - EpsDigits)))
        \* vx, vy = dx / L, dy / L
        vx  == Sign(mx) * UnitRatio(mx, n)
        vy  == Sign(my) * UnitRatio(my, n)
        \* nx, ny = -vy, vx
        nx  == -vy
        ny  == vx
        \* nx * r and ny * r as lengths
        nxr == Sign(nx) * Sign(r.m) * MulFix(Abs(nx), Abs(ToLen(r)))
        nyr == Sign(ny) * Sign(r.m) * MulFix(Abs(ny), Abs(ToLen(r)))
        x1  == ToLen(c1.x)  y1 == ToLen(c1.y)
        x2  == ToLen(c2.x)  y2 == ToLen(c2.y)
    IN IF LltEps
       THEN IF r.m > 0
            THEN <<[layer |-> layer, kind |-> "CIRCLE", center |-> c1, radius |-> r]>>
            ELSE <<>>
       ELSE <<[layer |-> layer, kind |-> "LWPOLYLINE", close |-> TRUE, from |-> "slot",
               verts |-> << [x |-> x1 - nxr, y |-> y1 - nyr, b |-> 0],
                            [x |-> x2 - nxr, y |-> y2 - nyr, b |-> Scale],
                            [x |-> x2 + nxr, y |-> y2 + nyr, b |-> 0],
                            [x |-> x1 + nxr, y |-> y1 + nyr, b |-> Scale] >>]>>

\* What a copy leaves when build_xyb_from_points raises
NoDrawing == <<"raised">>

\* The primitives the copies add for the locals loc, in the order of the
\* calls: OUTER, the inner contours, the bores
Modelspace(loc) ==
    LET verts == build_xyb_from_points(loc.outer_pts.pts)
        call  == loc.outer_pts.some /\ loc.outer_pts.pts # <<>>
        outer == IF call /\ verts # <<>>
                 THEN <<Polyline("OUTER", verts, "AK")>> ELSE <<>>
        inner == [k \in 1..Len(loc.inner_contours) |->
                    LET iverts == build_xyb_from_points(loc.inner_contours[k])
                    IN IF iverts # <<>>
                       THEN <<Polyline("cutout", iverts, "IK")>> ELSE <<>>]
        bores == [k \in 1..Len(loc.bo_items) |->
                    LET item == loc.bo_items[k]
                    IN IF item.kind = "circle"
                       THEN IF DecHalf(item.dia).m > 0
                            THEN <<[layer |-> "cutout", kind |-> "CIRCLE",
                                    center |-> item.c1,
                                    radius |-> DecHalf(item.dia)]>>
                            ELSE <<>>
                       ELSE nc1_to_dxf_add_slot_capsule(item.c1, item.c2, item.dia,
                                                        "cutout")]
        raised == \/ call /\ Raises(verts)
                  \/ \E k \in 1..Len(loc.inner_contours) :
                        Raises(build_xyb_from_points(loc.inner_contours[k]))
    IN IF raised THEN NoDrawing ELSE outer \o Concat(inner) \o Concat(bores)

\* generate_dxf_from_nc_text(txt, out_path) of nc1_to_dxf.py: the primitives
\* of the document it saves for the lines ls
nc1_to_dxf_generate(ls) ==
    Modelspace(BlockLoop(tokenize_blocks(ls, 1, NoTag, <<>>), NoLocals))

\* main() of ncTodxf.py behind the read: the same loop and the same calls
\* inline; "if 'OUTER' not in doc.layers" adds both layers to the new document
ncTodxf_main(ls) ==
    LET blocks == tokenize_blocks(ls, 1, NoTag, <<>>)
        loc    == BlockLoop(blocks, NoLocals)
    IN Modelspace(loc)

----------------------------------------------------------------------------
(* The naming component: parse_nc1_for_name, sanitize and the path names   *)
(* main() derives from them.  A name is a sequence of characters.          *)

LowerSeq == <<"a", "b", "c", "d", "e", "f", "g", "h", "i", "j", "k", "l", "m",
              "n", "o", "p", "q", "r", "s", "t", "u", "v", "w", "x", "y", "z">>

UpperSeq == <<"A", "B", "C", "D", "E", "F", "G", "H", "I", "J", "K", "L", "M",
              "N", "O", "P", "Q", "R", "S", "T", "U", "V", "W", "X", "Y", "Z">>

DigitSeq == <<"0", "1", "2", "3", "4", "5", "6", "7", "8", "9">>

Lower == {LowerSeq[k] : k \in 1..26}

\* str.upper()
UpperChar(c) ==
    IF c \in Lower THEN UpperSeq[CHOOSE k \in 1..26 : LowerSeq[k] = c] ELSE c

ToUpper(s) == [k \in 1..Len(s) |-> UpperChar(s[k])]

\* str(n) for an integer n >= 0
RECURSIVE IntStr(_)
IntStr(n) ==
    IF n < 10 THEN <<DigitSeq[n + 1]>>
    ELSE Append(IntStr(n \div 10), DigitSeq[(n % 10) + 1])

\* s.startswith(pre)
StartsWith(s, pre) == Len(s) >= Len(pre) /\ SubSeq(s, 1, Len(pre)) = pre

\* s.rstrip(c) for one character c
RECURSIVE RStripChar(_, _)
RStripChar(s, c) ==
    IF s # <<>> /\ s[Len(s)] = c THEN RStripChar(SubSeq(s, 1, Len(s) - 1), c) ELSE s

\* The characters sanitize replaces: [\\/:*?"<>|\r\n]
Forbidden == {"\\", "/", ":", "*", "?", "\"", "<", ">", "|", "\r", "\n"}

\* re.sub(r'[\\/:*?"<>|\r\n]+', "_", s): each run of forbidden characters
\* becomes one underscore; inrun says the character before s was forbidden
RECURSIVE ReplaceRuns(_, _)
ReplaceRuns(s, inrun) ==
    IF s = <<>> THEN <<>>
    ELSE IF Head(s) \in Forbidden
    THEN (IF inrun THEN <<>> ELSE <<"_">>) \o ReplaceRuns(Tail(s), TRUE)
    ELSE <<Head(s)>> \o ReplaceRuns(Tail(s), FALSE)

\* Faulty variant of sanitize: re.sub replaces the first run only
RECURSIVE ReplaceFirst(_)
ReplaceFirst(s) ==
    IF s = <<>> THEN <<>>
    ELSE IF Head(s) \in Forbidden THEN <<"_">> \o Tail(s)
    ELSE <<Head(s)>> \o ReplaceFirst(Tail(s))

sanitize_first_only(text) ==
    IF text = <<>> THEN <<"N", "A">> ELSE ReplaceFirst(Strip(text))

\* sanitize(text); the empty sequence stands for both "" and None
sanitize(text) ==
    IF text = <<>> THEN <<"N", "A">> ELSE ReplaceRuns(Strip(text), FALSE)

\* norm_num(s) for a token s of FLOAT_RE: f"{v:.3f}".rstrip("0").rstrip(".").
\* The value is rounded to three decimals; a decimal tie, which the code
\* decides by the binary expansion of v, goes to the even neighbour here.
norm_num(s) ==
    LET neg   == s[1] = "-"
        body  == IF s[1] \in {"+", "-"} THEN Tail(s) ELSE s
        sp    == SepPos(body, 1)
        ip    == IF sp = 0 THEN body ELSE SubSeq(body, 1, sp - 1)
        fp    == IF sp = 0 THEN <<>> ELSE SubSeq(body, sp + 1, Len(body))
        kept  == [k \in 1..3 |-> IF k <= Len(fp) THEN fp[k] ELSE "0"]
        rest  == IF Len(fp) > 3 THEN SubSeq(fp, 4, Len(fp)) ELSE <<>>
        low   == DigitsValue(ip \o kept, 0)
        twice == 2 * DigitsValue(rest, 0)
        unit  == Pow10(Len(rest))
        up    == twice > unit \/ (twice = unit /\ low % 2 = 1)
        thou  == IF up THEN low + 1 ELSE low
        frac  == [k \in 1..3 |-> DigitSeq[((thou \div Pow10(3 - k)) % 10) + 1]]
        text  == (IF neg THEN <<"-">> ELSE <<>>) \o IntStr(thou \div 1000)
                    \o <<".">> \o frac
    IN RStripChar(RStripChar(text, "0"), ".")

\* The index of the first line ln with ln.strip().upper() == word, 0 when
\* there is none (the code's index plus one)
RECURSIVE FirstLine(_, _, _)
FirstLine(ls, word, k) ==
    IF k > Len(ls) THEN 0
    ELSE IF ToUpper(Strip(ls[k])) = word THEN k
    ELSE FirstLine(ls, word, k + 1)

\* The loop of parse_header_fields over src[:30]: the stripped lines that are
\* neither blank nor a "**" comment, up to nine of them
RECURSIVE HeaderSeq(_, _)
HeaderSeq(src, seq) ==
    IF src = <<>> \/ Len(seq) >= 9 THEN seq
    ELSE LET s == Strip(Head(src))
         IN IF s = <<>> \/ StartsWith(s, <<"*", "*">>)
            THEN HeaderSeq(Tail(src), seq)
            ELSE HeaderSeq(Tail(src), Append(seq, s))

\* parse_header_fields(lines)
parse_header_fields(ls) ==
    LET st_idx == FirstLine(ls, <<"S", "T">>, 1)
        src    == SubSeq(ls, st_idx + 1, Len(ls))
        seq    == HeaderSeq(SubSeq(src, 1, Min(30, Len(src))), <<>>)
        At(k)  == IF Len(seq) >= k THEN seq[k] ELSE <<>>
    IN [piece |-> At(3), assembly |-> At(4), grade |-> At(5), qty |-> At(6),
        profile |-> At(7), type_code |-> At(2), b_idx |-> FirstLine(ls, <<"B">>, 1)]

\* The loop of parse_thickness_from_B: the first number of each non-blank
\* line that has one, up to twelve
RECURSIVE ThicknessVals(_, _)
ThicknessVals(src, vals) ==
    IF src = <<>> \/ Len(vals) >= 12 THEN vals
    ELSE LET nums == FindAll(Strip(Head(src)))
         IN IF nums = <<>> THEN ThicknessVals(Tail(src), vals)
            ELSE ThicknessVals(Tail(src), Append(vals, nums[1]))

\* parse_thickness_from_B(lines, b_idx); the empty sequence stands for None
parse_thickness_from_B(ls, b_idx) ==
    IF b_idx = 0 THEN <<>>
    ELSE LET vals == ThicknessVals(SubSeq(ls, b_idx + 1, Min(b_idx + 20, Len(ls))),
                                   <<>>)
         IN IF Len(vals) >= 3 THEN norm_num(vals[3]) ELSE <<>>

\* int(s) accepts s: an optional sign, then digits with single underscores
\* between them
IsIntLiteral(s) ==
    LET body == IF s # <<>> /\ s[1] \in {"+", "-"} THEN Tail(s) ELSE s
    IN /\ body # <<>>
       /\ body[1] \in Digit
       /\ body[Len(body)] \in Digit
       /\ \A k \in 1..Len(body) : body[k] \in Digit \cup {"_"}
       /\ \A k \in 1..(Len(body) - 1) : ~(body[k] = "_" /\ body[k + 1] = "_")

\* The digits of s
RECURSIVE DigitsOf(_)
DigitsOf(s) ==
    IF s = <<>> THEN <<>>
    ELSE (IF Head(s) \in Digit THEN <<Head(s)>> ELSE <<>>) \o DigitsOf(Tail(s))

\* pick_qty_simple(qty_str)
pick_qty_simple(qty_str) ==
    LET s == Strip(qty_str)
        q == DigitsValue(DigitsOf(s), 0)
    IN IF IsIntLiteral(s) /\ s[1] # "-" /\ q > 0 THEN IntStr(q) ELSE <<"1">>

\* \w of the regular expressions
WordChar(c) == c \in Digit \cup Upper \cup Lower \cup {"_"}

\* \b before position p of ln
Boundary(ln, p) ==
    (p > 1 /\ WordChar(ln[p - 1])) # (p <= Len(ln) /\ WordChar(ln[p]))

\* The position after a match of \bS[2-9][0-9]{2}[A-Z0-9]{0,3}\b (ignoring
\* case) at p, 0 when there is none; the repetition is greedy
GradeS(ln, p) ==
    LET Alnum(q) == q <= Len(ln) /\ ln[q] \in Digit \cup Upper \cup Lower
        Ends(k)  == /\ \A q \in (p + 4)..(p + 3 + k) : Alnum(q)
                    /\ Boundary(ln, p + 4 + k)
    IN IF /\ p + 3 <= Len(ln)
          /\ Boundary(ln, p)
          /\ ln[p] \in {"S", "s"}
          /\ ln[p + 1] \in Digit \ {"0", "1"}
          /\ ln[p + 2] \in Digit
          /\ ln[p + 3] \in Digit
          /\ \E k \in 0..3 : Ends(k)
       THEN p + 4 + CHOOSE k \in 0..3 : Ends(k) /\ \A j \in (k + 1)..3 : ~Ends(j)
       ELSE 0

\* The same for \bA36\b
GradeA36(ln, p) ==
    IF /\ p + 2 <= Len(ln)
       /\ Boundary(ln, p)
       /\ ln[p] \in {"A", "a"}
       /\ ln[p + 1] = "3"
       /\ ln[p + 2] = "6"
       /\ Boundary(ln, p + 3)
    THEN p + 3 ELSE 0

\* The same for \b1\.[0-9]{4}\b
GradeNumber(ln, p) ==
    IF /\ p + 5 <= Len(ln)
       /\ Boundary(ln, p)
       /\ ln[p] = "1"
       /\ ln[p + 1] = "."
       /\ \A q \in (p + 2)..(p + 5) : ln[q] \in Digit
       /\ Boundary(ln, p + 6)
    THEN p + 6 ELSE 0

\* The patterns of pick_grade_simple, in the order of the list
GradeAt(rx, ln, p) ==
    IF rx = 1 THEN GradeS(ln, p)
    ELSE IF rx = 2 THEN GradeA36(ln, p)
    ELSE GradeNumber(ln, p)

\* pat.search(ln): the leftmost match of pattern rx, <<>> when none
RECURSIVE Search(_, _, _)
Search(rx, ln, p) ==
    IF p > Len(ln) THEN <<>>
    ELSE IF GradeAt(rx, ln, p) # 0 THEN SubSeq(ln, p, GradeAt(rx, ln, p) - 1)
    ELSE Search(rx, ln, p + 1)

\* "for ln in lines[:60]: m = pat.search(ln); if m: return": the first match
\* of pattern rx in the lines, <<>> when none
RECURSIVE SearchLines(_, _)
SearchLines(rx, ls) ==
    IF ls = <<>> THEN <<>>
    ELSE IF Search(rx, Head(ls), 1) # <<>> THEN Search(rx, Head(ls), 1)
    ELSE SearchLines(rx, Tail(ls))

\* "for rx in patterns": the first pattern, from rx on, with a match
RECURSIVE SearchPatterns(_, _)
SearchPatterns(rx, ls) ==
    IF rx > 3 THEN <<>>
    ELSE IF SearchLines(rx, ls) # <<>> THEN SearchLines(rx, ls)
    ELSE SearchPatterns(rx + 1, ls)

\* pick_grade_simple(grade, lines)
pick_grade_simple(grade, ls) ==
    LET found == SearchPatterns(1, SubSeq(ls, 1, Min(60, Len(ls))))
    IN IF Strip(grade) # <<>> THEN ToUpper(Strip(grade))
       ELSE IF found # <<>> THEN ToUpper(found)
       ELSE <<"N", "A">>

\* parse_nc1_for_name(text, fallback_stem), for the lines ls of text
parse_nc1_for_name(ls, fallback_stem) ==
    LET h == parse_header_fields(ls)
    IN [name      |-> sanitize(IF h.piece # <<>> THEN h.piece ELSE fallback_stem),
        thickness |-> sanitize(parse_thickness_from_B(ls, h.b_idx)),
        grade     |-> sanitize(pick_grade_simple(h.grade, ls)),
        qty       |-> pick_qty_simple(h.qty)]

\* TARGET_EXT
TARGET_EXT == <<".", "n", "c", "1">>

\* The position of the dot that starts the suffix of a file name, 0 when the
\* name has no suffix (PurePath.suffix: the last dot, neither first nor last)
RECURSIVE LastDot(_, _)
LastDot(name, p) ==
    IF p = 0 THEN 0 ELSE IF name[p] = "." THEN p ELSE LastDot(name, p - 1)

SuffixPos(name) ==
    LET q == LastDot(name, Len(name))
    IN IF q > 1 /\ q < Len(name) THEN q ELSE 0

\* p.suffix, p.stem and p.with_suffix(ext).name for the name of path p
suffix(name) ==
    IF SuffixPos(name) = 0 THEN <<>> ELSE SubSeq(name, SuffixPos(name), Len(name))

stem(name) ==
    IF SuffixPos(name) = 0 THEN name ELSE SubSeq(name, 1, SuffixPos(name) - 1)

with_suffix(name, ext) == stem(name) \o ext

\* target.name of main(): new_name for the candidate called name whose text
\* has the lines ls
new_name(ls, name) ==
    LET f == parse_nc1_for_name(ls, stem(name))
    IN sanitize(f.grade \o <<"-">> \o f.thickness \o <<"-", "(">> \o f.name
                    \o <<")", "-">> \o f.qty) \o TARGET_EXT

----------------------------------------------------------------------------
(* The license gate: verify_license_or_exit                                *)

\* A calendar date
Date(y, m, d) == [y |-> y, m |-> m, d |-> d]

Leap(y) == y % 4 = 0 /\ (y % 100 # 0 \/ y % 400 = 0)

DaysIn(y, m) ==
    IF m = 2 THEN (IF Leap(y) THEN 29 ELSE 28)
    ELSE IF m \in {4, 6, 9, 11} THEN 30 ELSE 31

\* a > b for two dates
Later(a, b) ==
    \/ a.y > b.y
    \/ a.y = b.y /\ a.m > b.m
    \/ a.y = b.y /\ a.m = b.m /\ a.d > b.d

NoDate == [ok |-> FALSE, date |-> Date(0, 0, 0)]

\* datetime.strptime(s, "%Y-%m-%d").date(): the pattern
\* \d\d\d\d-(1[0-2]|0[1-9]|[1-9])-(3[01]|[12]\d|0[1-9]|[1-9]| [1-9]) matched
\* from the start of s, ValueError when it does not match, when characters
\* remain behind the match or when the numbers are no date
strptime(s) ==
    LET Is(p, S) == p <= Len(s) /\ s[p] \in S
        V(p)     == DigitVal(s[p])
        NonZero  == Digit \ {"0"}
        year_ok  == /\ \A p \in 1..4 : Is(p, Digit)
                    /\ Is(5, {"-"})
        m2       == \/ Is(6, {"1"}) /\ Is(7, {"0", "1", "2"})
                    \/ Is(6, {"0"}) /\ Is(7, NonZero)
        mlen     == IF m2 /\ Is(8, {"-"}) THEN 2
                    ELSE IF Is(6, NonZero) /\ Is(7, {"-"}) THEN 1 ELSE 0
        d        == 7 + mlen
        dlen     == IF \/ Is(d, {"3"}) /\ Is(d + 1, {"0", "1"})
                       \/ Is(d, {"1", "2"}) /\ Is(d + 1, Digit)
                       \/ Is(d, {"0"}) /\ Is(d + 1, NonZero)
                       \/ Is(d, {" "}) /\ Is(d + 1, NonZero)
                    THEN 2
                    ELSE IF Is(d, NonZero) THEN 1 ELSE 0
        Num(p, n) == IF n = 2
                     THEN (IF s[p] = " " THEN 0 ELSE 10 * V(p)) + V(p + 1)
                     ELSE V(p)
    IN IF ~year_ok \/ mlen = 0 \/ dlen = 0 \/ Len(s) # d + dlen - 1 THEN NoDate
       ELSE LET yy == DigitsValue(SubSeq(s, 1, 4), 0)
                mm == Num(6, mlen)
                dd == Num(d, dlen)
            IN IF yy >= 1 /\ dd <= DaysIn(yy, mm)
               THEN [ok |-> TRUE, date |-> Date(yy, mm, dd)]
               ELSE NoDate

\* A value of payload["expires"]: JSON null, a string or a number
Null == [kind |-> "null", s |-> <<>>, n |-> 0]
Str(s) == [kind |-> "str", s |-> s, n |-> 0]
Number(n) == [kind |-> "num", s |-> <<>>, n |-> n]

\* "if exp:"
Truthy(exp) ==
    \/ exp.kind = "str" /\ exp.s # <<>>
    \/ exp.kind = "num" /\ exp.n # 0

\* Faulty variant of Expired: the license ends at the start of its last day
Expired_OnLastDay(exp, t) ==
    /\ Truthy(exp)
    /\ exp.kind = "str"
    /\ strptime(exp.s).ok
    /\ ~Later(strptime(exp.s).date, t)

\* "if exp: try: if date.today() > strptime(exp, ...).date(): exit except
\* Exception: pass": strptime raises TypeError on a value that is no string
Expired(exp, t) ==
    /\ Truthy(exp)
    /\ exp.kind = "str"
    /\ strptime(exp.s).ok
    /\ Later(t, strptime(exp.s).date)

\* program.lic as verify_license_or_exit finds it: file is "missing",
\* "malformed" (no JSON object with payload and sig) or "present"; key says
\* that PUBLIC_KEY_BASE64 is a verify key; sig is "good", "bad" or "garbled"
\* (no Base64 text of 64 bytes); fp says that payload.fp is this machine's
License(file, key, sig, fp, expires) ==
    [file |-> file, key |-> key, sig |-> sig, fp |-> fp, expires |-> expires]

\* What verify_license_or_exit does for the license l on the day t: "return",
\* "exit" for sys.exit(1), "raise" for an exception no clause catches
Verdict(l, t) ==
    IF l.file # "present" THEN "exit"
    ELSE IF ~l.key THEN "exit"
    ELSE IF l.sig = "bad" THEN "exit"
    ELSE IF l.sig = "garbled" THEN "raise"
    ELSE IF ~l.fp THEN "exit"
    ELSE IF Expired(l.expires, t) THEN "exit"
    ELSE "return"

----------------------------------------------------------------------------
(* main(): the license gate, the folder and the batch loop                 *)

conv == <<lines, i, cur_tag, cur, yielded, discarded, outer_pts,
          inner_contours, bo_items, idx, msp>>

\* What main() is started with and never assigns
world == <<lic, today, folder>>

\* A function with one more, or one less, argument
Put(f, k, v) == [n \in DOMAIN f \cup {k} |-> IF n = k THEN v ELSE f[n]]
Drop(f, k) == [n \in DOMAIN f \ {k} |-> f[n]]

\* The extension of the DXF files
DXF_EXT == <<".", "d", "x", "f">>

\* Faulty variant of VerifyLicense: the verdict is only printed
VerifyLicense_Warn ==
    /\ bpc = "license"
    /\ payload' = [some |-> Verdict(lic, today) = "return", expires |-> lic.expires]
    /\ bpc' = "folder"
    /\ UNCHANGED <<conv, pc, rnd, world, candidates, nfile, renamed, dxf_ok,
                   dxf_err, log, fs, dxfs, txt, final_nc_path>>

\* "lic = verify_license_or_exit()"
VerifyLicense ==
    /\ bpc = "license"
    /\ IF Verdict(lic, today) = "return"
       THEN /\ payload' = [some |-> TRUE, expires |-> lic.expires]
            /\ bpc' = "folder"
       ELSE /\ bpc' = "exit"
            /\ UNCHANGED payload
    /\ UNCHANGED <<conv, pc, rnd, world, candidates, nfile, renamed, dxf_ok,
                   dxf_err, log, fs, dxfs, txt, final_nc_path>>

\* "folder = filedialog.askdirectory(...)", the glob of the candidates and the
\* counters set to 0
SelectFolder ==
    /\ bpc = "folder"
    /\ IF ~folder.chosen
       THEN /\ bpc' = "exit"
            /\ UNCHANGED candidates
       ELSE /\ candidates' = folder.listing
            /\ bpc' = IF folder.listing = <<>> THEN "empty" ELSE "read"
    /\ renamed' = 0
    /\ dxf_ok' = 0
    /\ dxf_err' = 0
    /\ UNCHANGED <<conv, pc, rnd, world, payload, nfile, log, fs, dxfs, txt,
                   final_nc_path>>

\* target = p.with_name(new_name) for the candidate in hand
Target == new_name(txt, candidates[nfile + 1])

\* What the rename block did with the candidate in hand
Outcome ==
    IF final_nc_path # candidates[nfile + 1] THEN "renamed"
    ELSE IF Target = candidates[nfile + 1] THEN "same" ELSE "error"

\* The entry of log for the candidate in hand
Entry(read, ren, dxf) ==
    LET p  == candidates[nfile + 1]
        at == IF read = "ok" THEN final_nc_path ELSE p
    IN [file  |-> nfile + 1, read |-> read, ren |-> ren, dxf |-> dxf,
        name  |-> p,
        orig  |-> IF at \in DOMAIN fs THEN fs[at].orig ELSE 0,
        text  |-> IF read = "ok" THEN txt ELSE <<>>,
        final |-> at,
        out   |-> with_suffix(at, DXF_EXT),
        prims |-> IF pc = "done" THEN msp ELSE <<>>]

\* "for p in candidates: try: txt = p.read_text(...) except: ...; continue"
ReadText ==
    /\ bpc = "read"
    /\ nfile < Len(candidates)
    /\ LET p == candidates[nfile + 1]
       IN IF p \in DOMAIN fs /\ fs[p].read
          THEN /\ txt' = fs[p].text
               /\ bpc' = "rename"
               /\ UNCHANGED <<nfile, log>>
          ELSE /\ nfile' = nfile + 1
               /\ log' = Append(log, Entry("error", "none", "none"))
               /\ UNCHANGED <<bpc, txt>>
    /\ UNCHANGED <<conv, pc, rnd, world, payload, candidates, renamed, dxf_ok,
                   dxf_err, fs, dxfs, final_nc_path>>

\* Faulty variant of Rename: a file found at the target path is kept and the
\* candidate stays where it is
Rename_KeepExisting ==
    /\ bpc = "rename"
    /\ LET p      == candidates[nfile + 1]
           target == Target
       IN IF target # p
          THEN IF target \in DOMAIN fs
               THEN /\ final_nc_path' = p
                    /\ UNCHANGED <<fs, renamed>>
               ELSE IF fs[p].ren = "error"
               THEN /\ fs' = fs
                    /\ final_nc_path' = p
                    /\ UNCHANGED renamed
               ELSE /\ fs' = Put(Drop(fs, p), target, fs[p])
                    /\ renamed' = renamed + 1
                    /\ final_nc_path' = target
          ELSE /\ final_nc_path' = p
               /\ UNCHANGED <<fs, renamed>>
    /\ bpc' = "gen"
    /\ UNCHANGED <<conv, pc, rnd, world, payload, candidates, nfile, dxf_ok,
                   dxf_err, log, dxfs, txt>>

\* Faulty variant of Rename: the DXF is named after the candidate's old name
Rename_OldPath ==
    /\ bpc = "rename"
    /\ LET p      == candidates[nfile + 1]
           target == Target
       IN IF target # p
          THEN IF target \in DOMAIN fs /\ fs[target].ren = "error"
               THEN /\ final_nc_path' = p
                    /\ UNCHANGED <<fs, renamed>>
               ELSE IF fs[p].ren = "error"
               THEN /\ fs' = Drop(fs, target)
                    /\ final_nc_path' = p
                    /\ UNCHANGED renamed
               ELSE /\ fs' = Put(Drop(fs, p), target, fs[p])
                    /\ renamed' = renamed + 1
                    /\ final_nc_path' = p
          ELSE /\ final_nc_path' = p
               /\ UNCHANGED <<fs, renamed>>
    /\ bpc' = "gen"
    /\ UNCHANGED <<conv, pc, rnd, world, payload, candidates, nfile, dxf_ok,
                   dxf_err, log, dxfs, txt>>

\* The new name and the try block around p.rename(target).  A file whose ren
\* is "error" is held open by another program: unlinking or renaming it
\* raises.  When target.unlink() has succeeded and p.rename(target) raises,
\* the file that was at the target is gone and the candidate keeps its name.
Rename ==
    /\ bpc = "rename"
    /\ LET p      == candidates[nfile + 1]
           target == Target
       IN IF target # p
          THEN IF target \in DOMAIN fs /\ fs[target].ren = "error"
               THEN /\ final_nc_path' = p
                    /\ UNCHANGED <<fs, renamed>>
               ELSE IF fs[p].ren = "error"
               THEN /\ fs' = Drop(fs, target)
                    /\ final_nc_path' = p
                    /\ UNCHANGED renamed
               ELSE /\ fs' = Put(Drop(fs, p), target, fs[p])
                    /\ renamed' = renamed + 1
                    /\ final_nc_path' = target
          ELSE /\ final_nc_path' = p
               /\ UNCHANGED <<fs, renamed>>
    /\ bpc' = "gen"
    /\ UNCHANGED <<conv, pc, rnd, world, payload, candidates, nfile, dxf_ok,
                   dxf_err, log, dxfs, txt>>

\* Faulty variant of Generate: the modelspace of the last drawing is reused
Generate_SharedModelspace ==
    /\ bpc = "gen"
    /\ pc = "idle"
    /\ lines' = txt
    /\ i' = 0
    /\ cur_tag' = NoTag
    /\ cur' = <<>>
    /\ yielded' = <<>>
    /\ discarded' = <<>>
    /\ outer_pts' = [some |-> FALSE, pts |-> <<>>]
    /\ inner_contours' = <<>>
    /\ bo_items' = <<>>
    /\ pc' = "tok"
    /\ idx' = 0
    /\ msp' = msp
    /\ UNCHANGED <<rnd, batch>>

\* The call generate_dxf_from_nc_text(txt, out_dxf, lic_payload=lic): its
\* locals and the new document start empty
Generate ==
    /\ bpc = "gen"
    /\ pc = "idle"
    /\ lines' = txt
    /\ i' = 0
    /\ cur_tag' = NoTag
    /\ cur' = <<>>
    /\ yielded' = <<>>
    /\ discarded' = <<>>
    /\ outer_pts' = [some |-> FALSE, pts |-> <<>>]
    /\ inner_contours' = <<>>
    /\ bo_items' = <<>>
    /\ pc' = "tok"
    /\ idx' = 0
    /\ msp' = <<>>
    /\ UNCHANGED <<rnd, batch>>

\* Faulty variant of FileDone: a failed conversion ends the loop
FileDone_Abort ==
    /\ bpc = "gen"
    /\ pc \in {"done", "raised"}
    /\ LET ok  == pc = "done" /\ fs[final_nc_path].save
           out == with_suffix(final_nc_path, DXF_EXT)
       IN /\ dxf_ok' = IF ok THEN dxf_ok + 1 ELSE dxf_ok
          /\ dxf_err' = IF ok THEN dxf_err ELSE dxf_err + 1
          /\ dxfs' = IF ok THEN Put(dxfs, out, [prims |-> msp, file |-> nfile + 1])
                     ELSE dxfs
          /\ log' = Append(log, Entry("ok", Outcome, IF ok THEN "ok" ELSE "error"))
          /\ bpc' = IF ok THEN "read" ELSE "aborted"
    /\ nfile' = nfile + 1
    /\ pc' = "idle"
    /\ UNCHANGED <<conv, rnd, world, payload, candidates, renamed, fs, txt,
                   final_nc_path>>

\* The drawing is complete: add_doc_metadata, the file found at out_path
\* unlinked, doc.saveas(out_path), and the except clause around the call,
\* which counts the candidate.  A file whose save is FALSE has a DXF path
\* that cannot be written: the unlink fails silently and saveas raises.
FileDone ==
    /\ bpc = "gen"
    /\ pc \in {"done", "raised"}
    /\ LET ok  == pc = "done" /\ fs[final_nc_path].save
           out == with_suffix(final_nc_path, DXF_EXT)
       IN /\ dxf_ok' = IF ok THEN dxf_ok + 1 ELSE dxf_ok
          /\ dxf_err' = IF ok THEN dxf_err ELSE dxf_err + 1
          /\ dxfs' = IF ok THEN Put(dxfs, out, [prims |-> msp, file |-> nfile + 1])
                     ELSE dxfs
          /\ log' = Append(log, Entry("ok", Outcome, IF ok THEN "ok" ELSE "error"))
    /\ nfile' = nfile + 1
    /\ bpc' = "read"
    /\ pc' = "idle"
    /\ UNCHANGED <<conv, rnd, world, payload, candidates, renamed, fs, txt,
                   final_nc_path>>

\* The loop is exhausted: the summary line is printed
Summary ==
    /\ bpc = "read"
    /\ nfile = Len(candidates)
    /\ bpc' = "summary"
    /\ UNCHANGED <<conv, pc, rnd, world, payload, candidates, nfile, renamed,
                   dxf_ok, dxf_err, log, fs, dxfs, txt, final_nc_path>>

Next ==
    \/ VerifyLicense
    \/ SelectFolder
    \/ ReadText
    \/ Rename
    \/ Generate
    \/ TagLine
    \/ DataLine
    \/ EndOfText
    \/ EmitOuter
    \/ EmitInner
    \/ InnerDone
    \/ EmitBore
    \/ BoreDone
    \/ FileDone
    \/ Summary

\* A file of the folder: its name (<<>>: a name given by its place in the
\* folder), its text as lines, whether read_text returns, whether unlink and
\* rename raise on it ("ok", "error"), whether its DXF can be written
Candidate(ls, read, ren, save) ==
    [name |-> <<>>, text |-> ls, read |-> read, ren |-> ren, save |-> save]

\* The file c under the name nm
Named(c, nm) == [c EXCEPT !.name = nm]

\* The name of the k-th file of the folder: "1.nc", "2.nc", ...
NameOf(cs, k) == IF cs[k].name = <<>> THEN IntStr(k) \o <<".", "n", "c">> ELSE cs[k].name

\* The names of the files cs are distinct
Distinct(cs) ==
    \A j, k \in 1..Len(cs) : j # k => NameOf(cs, j) # NameOf(cs, k)

\* A license of this machine without end, and a day
ValidLicense == License("present", TRUE, "good", TRUE, Null)
Today == Date(2026, 11, 2)

\* The state main() starts in: the license l, the day t, whether the user
\* picks a folder, the files cs the folder holds in the order of the glob
Launch(l, t, chosen, cs, r) ==
    /\ lines = <<>>
    /\ i = 0
    /\ cur_tag = NoTag
    /\ cur = <<>>
    /\ yielded = <<>>
    /\ discarded = <<>>
    /\ outer_pts = [some |-> FALSE, pts |-> <<>>]
    /\ inner_contours = <<>>
    /\ bo_items = <<>>
    /\ pc = "idle"
    /\ idx = 0
    /\ msp = <<>>
    /\ rnd = r
    /\ lic = l
    /\ today = t
    /\ folder = [chosen |-> chosen, listing |-> [k \in 1..Len(cs) |-> NameOf(cs, k)]]
    /\ payload = [some |-> FALSE, expires |-> Null]
    /\ candidates = <<>>
    /\ nfile = 0
    /\ renamed = 0
    /\ dxf_ok = 0
    /\ dxf_err = 0
    /\ bpc = "license"
    /\ log = <<>>
    /\ fs = [n \in {NameOf(cs, k) : k \in 1..Len(cs)} |->
                LET k == CHOOSE j \in 1..Len(cs) : NameOf(cs, j) = n
                IN [text |-> cs[k].text, read |-> cs[k].read, ren |-> cs[k].ren,
                    save |-> cs[k].save, orig |-> k]]
    /\ dxfs = [n \in {} |-> 0]
    /\ txt = <<>>
    /\ final_nc_path = <<>>

\* A licensed run over the folder that holds the files cs
Begin(cs, r) == Launch(ValidLicense, Today, TRUE, cs, r)

\* A run over one file with the lines ls that is read, renamed and saved
Start(ls, r) == Begin(<<Candidate(ls, TRUE, "ok", TRUE)>>, r)

----------------------------------------------------------------------------
(* Inputs                                                                  *)

\* "AK"
TokLine1 == <<"A", "K">>

\* " IK<tab>": a tag once stripped
TokLine2 == <<" ", "I", "K", "\t">>

\* "BO"
TokLine3 == <<"B", "O">>

\* "EN"
TokLine4 == <<"E", "N">>

\* "1 2 3": a point in AK/IK, a hole in BO
TokLine5 == <<"1", " ", "2", " ", "3">>

\* the empty line
TokLine6 == <<>>

\* " ak": lower case behind a blank, no tag
TokLine7 == <<" ", "a", "k">>

\* "1,5 2.5": two tokens, both separators
ParseLine1 == <<"1", ",", "5", " ", "2", ".", "5">>

\* "+1.50,-2,5x3": tokens +1.50, -2,5 and 3
ParseLine2 == <<"+", "1", ".", "5", "0", ",", "-", "2", ",", "5", "x", "3">>

\* "7": one token
ParseLine3 == <<"7">>

\* "x-": no token
ParseLine4 == <<"x", "-">>

\* "4 5 6 0 l 7 8": the letter l and six tokens
ParseLine5 == <<"4", " ", "5", " ", "6", " ", "0", " ", "l", " ", "7", " ", "8">>

\* "4 5 6 0 L 7 8": the letter L and six tokens
ParseLine6 == <<"4", " ", "5", " ", "6", " ", "0", " ", "L", " ", "7", " ", "8">>

\* "4 5 6 l": the letter l and three tokens
ParseLine7 == <<"4", " ", "5", " ", "6", " ", "l">>

\* "4 5 6 0 7 8": six tokens, no letter l
ParseLine8 == <<"4", " ", "5", " ", "6", " ", "0", " ", "7", " ", "8">>

\* "1 2 l": the letter l and two tokens
ParseLine9 == <<"1", " ", "2", " ", "l">>

\* "0 0": k defaults to 0
PtLine1 == <<"0", " ", "0">>

\* "10 0 5"
PtLine2 == <<"1", "0", " ", "0", " ", "5">>

\* "10 10 0"
PtLine3 == <<"1", "0", " ", "1", "0", " ", "0">>

\* "0 10 -5"
PtLine4 == <<"0", " ", "1", "0", " ", "-", "5">>

\* "3 4 5"
PtLine5 == <<"3", " ", "4", " ", "5">>

\* "0 0 0.0000000005": 0 < k < EPS
PtLine6 == <<"0", " ", "0", " ", "0", ".", "0", "0", "0", "0", "0", "0", "0", "0", "0", "5">>

\* "3 4 -0.000000002": |k| just above EPS
PtLine7 == <<"3", " ", "4", " ", "-", "0", ".", "0", "0", "0", "0", "0", "0", "0", "0", "2">>

\* "5 5 12": the hole of the end-to-end example
BoLine1 == <<"5", " ", "5", " ", "1", "2">>

\* "100 50 20 0 l 40 0": the slot of the end-to-end example
BoLine2 == <<"1", "0", "0", " ", "5", "0", " ", "2", "0", " ", "0", " ", "l", " ", "4", "0", " ", "0">>

\* "100 50 20 7 L 40 0 9": BoLine2 with another fourth token and a seventh
BoLine3 ==
    <<"1", "0", "0", " ", "5", "0", " ", "2", "0", " ", "7", " ", "L", " ",
      "4", "0", " ", "0", " ", "9">>

\* "5 5 -12": a hole of negative diameter
BoLine4 == <<"5", " ", "5", " ", "-", "1", "2">>

\* "4 5 6 0 l 0 0": a slot whose centers coincide
BoLine5 == <<"4", " ", "5", " ", "6", " ", "0", " ", "l", " ", "0", " ", "0">>

\* "4 5 0 0 l 0 0": a slot whose centers coincide, of diameter 0
BoLine6 == <<"4", " ", "5", " ", "0", " ", "0", " ", "l", " ", "0", " ", "0">>

\* "0 0 2 0 l -3 4": an oblique slot, L = 5
BoLine7 == <<"0", " ", "0", " ", "2", " ", "0", " ", "l", " ", "-", "3", " ", "4">>

\* "0 0 2 0 l 0.0000000001 0": distinct centers closer than EPS
BoLine8 ==
    <<"0", " ", "0", " ", "2", " ", "0", " ", "l", " ",
      "0", ".", "0", "0", "0", "0", "0", "0", "0", "0", "0", "1", " ", "0">>

\* "4 5 -6 0 l 7 8": an oblique slot of negative diameter
BoLine9 ==
    <<"4", " ", "5", " ", "-", "6", " ", "0", " ", "l", " ", "7", " ", "8">>

TokLines == {TokLine1, TokLine2, TokLine3, TokLine4, TokLine5, TokLine6, TokLine7}

ParseLines == {ParseLine1, ParseLine2, ParseLine3, ParseLine4, ParseLine5,
               ParseLine6, ParseLine7, ParseLine8, ParseLine9}

BoLines == {BoLine1, BoLine2, BoLine3, BoLine4, BoLine5, BoLine6, BoLine7,
            BoLine8, BoLine9}

PtLines == {PtLine1, PtLine2, PtLine4, PtLine5, PtLine6, PtLine7}

\* The closed quad of the arc example followed by an inner contour, the
\* hole and the slot of the bore examples, and the terminator
ExampleText ==
    <<AK, PtLine1, PtLine2, PtLine3, PtLine4, IK, PtLine1, PtLine5, BO, BoLine1,
      BoLine2, EN>>

\* An outer contour with a zero-length chord, a chord longer than 2|k| and a
\* curvature below EPS, followed by an inner contour of a single point
DegenerateText == <<AK, PtLine7, PtLine7, PtLine6, IK, PtLine1, EN>>

\* Sequences over S of length 0..n
SeqsUpTo(S, n) == UNION {[1..m -> S] : m \in 0..n}

\* Bounds of the inputs
MaxLines == 4
MaxBlockLines == 2
MaxPts == 3
MaxBoLines == 2
MaxBlocks == 3
MaxFiles == 3

\* Tokenizer inputs: every text of at most MaxLines lines over TokLines
InitTok ==
    \E ls \in SeqsUpTo(TokLines, MaxLines) \cup {ExampleText} : Start(ls, 0)

\* Extractor and classifier inputs: one AK, IK or BO block
InitParse ==
    \E tag \in {AK, IK, BO}, ls \in SeqsUpTo(ParseLines, MaxBlockLines) :
        Start(<<tag>> \o ls, 0)

\* Bulge engine inputs: one AK contour of at most MaxPts points over PtLines,
\* and the two texts above
InitBulge ==
    \E r \in {0, 1} :
        \/ \E ls \in SeqsUpTo(PtLines, MaxPts) : Start(<<AK>> \o ls, r)
        \/ Start(ExampleText, r)
        \/ Start(DegenerateText, r)

SpecTok == InitTok /\ [][Next]_vars
SpecParse == InitParse /\ [][Next]_vars
SpecBulge == InitBulge /\ [][Next]_vars

\* Bore inputs: one BO block of at most MaxBoLines lines over BoLines, and the
\* example text
InitBore ==
    \/ \E ls \in SeqsUpTo(BoLines, MaxBoLines) : Start(<<BO>> \o ls, 0)
    \/ Start(ExampleText, 0)

\* Blocks a text is put together from
AKBlock == <<AK, PtLine1, PtLine2, PtLine3>>
IKBlockA == <<IK, PtLine1, PtLine3>>
IKBlockB == <<IK, PtLine3, PtLine4>>
IKBlockPoint == <<IK, PtLine1>>
BOBlockA == <<BO, BoLine1, BoLine2>>
BOBlockB == <<BO, BoLine4, BoLine5>>
ENBlock == <<EN>>

Blocks == {AKBlock, IKBlockA, IKBlockB, IKBlockPoint, BOBlockA, BOBlockB, ENBlock}

\* Assembler inputs: texts of at most MaxBlocks blocks
InitDraw ==
    \E bs \in SeqsUpTo(Blocks, MaxBlocks) : Start(Concat(bs), 0)

\* "1 1 1": a hole
BoLine10 == <<"1", " ", "1", " ", "1">>

\* A text with an inner contour of one point and a hole
ShortText == <<IK, PtLine1, BO, BoLine10>>

\* Candidates: one whose read fails, one whose rename fails, one whose DXF
\* cannot be saved, one that is renamed and converted, one that keeps its name
UnreadableFile == Candidate(ShortText, FALSE, "ok", TRUE)
LockedFile == Candidate(ShortText, TRUE, "error", TRUE)
UnwritableFile == Candidate(ShortText, TRUE, "ok", FALSE)
GoodFile == Candidate(ShortText, TRUE, "ok", TRUE)

\* A header with the piece mark P1, and the name main() gives its file:
\* "NA-NA-(P1)-1.nc1"
PlateText == <<<<"S", "T">>, <<"1">>, <<"6">>, <<"P", "1">>>>

PlateName ==
    <<"N", "A", "-", "N", "A", "-", "(", "P", "1", ")", "-", "1", ".", "n", "c", "1">>

NamedFile == Named(Candidate(PlateText, TRUE, "ok", TRUE), PlateName)

Files == {UnreadableFile, LockedFile, UnwritableFile, GoodFile, NamedFile}

\* Batch inputs: between one and MaxFiles candidates ("if not candidates:
\* return" leaves main() before the loop)
InitBatch ==
    \E cs \in SeqsUpTo(Files, MaxFiles) \ {<<>>} : Distinct(cs) /\ Begin(cs, 0)

\* Values of "expires": none, empty, no string, the day before Today, Today,
\* the day after, a date without padding, 29 February of a common year and of
\* a leap year, a date in another order, a date followed by a letter, a word
Expiries ==
    {Null, Str(<<>>), Number(0), Number(20200101),
     Str(<<"2", "0", "2", "6", "-", "1", "1", "-", "0", "1">>),
     Str(<<"2", "0", "2", "6", "-", "1", "1", "-", "0", "2">>),
     Str(<<"2", "0", "2", "6", "-", "1", "1", "-", "0", "3">>),
     Str(<<"2", "0", "2", "6", "-", "1", "-", "5">>),
     Str(<<"2", "0", "2", "5", "-", "0", "2", "-", "2", "9">>),
     Str(<<"2", "0", "2", "4", "-", "0", "2", "-", "2", "9">>),
     Str(<<"3", "1", "-", "1", "2", "-", "2", "0", "2", "0">>),
     Str(<<"2", "0", "2", "0", "-", "0", "1", "-", "0", "1", "x">>),
     Str(<<"n", "e", "v", "e", "r">>)}

\* Days the program is run on
Days == {Today, Date(2026, 11, 3), Date(2026, 1, 5), Date(2024, 2, 29),
         Date(2025, 3, 1), Date(2027, 1, 1)}

\* Every program.lic
Licenses ==
    {License(f, k, g, p, e) :
        f \in {"missing", "malformed", "present"}, k \in BOOLEAN,
        g \in {"good", "bad", "garbled"}, p \in BOOLEAN, e \in Expiries}

\* Folders: an empty one, one file, two files
GateFolders == {<<>>, <<GoodFile>>, <<NamedFile, GoodFile>>}

\* Gate inputs: any license on any day, a folder picked or not
InitGate ==
    \E l \in Licenses, t \in Days, chosen \in BOOLEAN, cs \in GateFolders :
        Launch(l, t, chosen, cs, 0)

\* Texts converted one after the other in one run
IndepTexts == {ExampleText, ShortText, DegenerateText}

\* Independence inputs: between one and MaxFiles files over these texts, each
\* readable, free to rename and to save
InitIndep ==
    \E cs \in SeqsUpTo({Candidate(t, TRUE, "ok", TRUE) : t \in IndepTexts}, MaxFiles)
                \ {<<>>}, r \in {0, 1} :
        Begin(cs, r)

\* Header lines: piece marks, grades, quantities and thicknesses
Pieces ==
    {<<"P", "1">>,
     <<"a", "/", "b", ":", "*", "c">>,
     <<"(", "7", ")", "-", "2">>}

Grades ==
    {<<"S", "3", "5", "5", "J", "R">>,
     <<"s", "2", "3", "5">>,
     <<"1", ".", "0", "0", "3", "8">>}

Qtys ==
    {<<"4">>, <<"-", "3">>, <<"0">>, <<"x">>, <<"0", "0", "7">>, <<"3", ".", "0">>,
     <<"+", "1", "2">>, <<"1", "_", "0">>}

Thicks ==
    {<<"1", "2", ",", "5", "0">>, <<"8">>, <<"0", ".", "0", "0", "0", "4">>,
     <<"-", "2", ".", "5">>}

\* A plate header as parse_header_fields expects it: ST, a comment, the
\* identifier, the type, the piece mark, the assembly mark, the grade, the
\* quantity and the profile; then the B block with the thickness third
Header(piece, grade, qty, thick) ==
    <<<<"S", "T">>, <<"*", "*", " ", "c">>, <<"1">>, <<" ", "6">>, piece,
      <<"A", "1">>, grade, qty, <<"B", "L", "2", "0">>,
      <<"B">>, <<"1", "0", "0">>, <<"5", "0">>, thick>>

\* "x S355J2 y": a line with a grade in it
GradeLine == <<"x", " ", "S", "3", "5", "5", "J", "2", " ", "y">>

\* Texts with a short header: none, no piece mark, no grade, no grade but a
\* line with one, no quantity; and two texts without ST
ShortHeaders ==
    {<<>>,
     <<<<"S", "T">>, <<"1">>, <<"6">>>>,
     <<<<"S", "T">>, <<"1">>, <<"6">>, <<"P", "1">>, <<"A", "1">>>>,
     <<<<"S", "T">>, <<"1">>, <<"6">>, <<"P", "1">>, <<>>, GradeLine>>,
     <<GradeLine, <<"B">>, <<"1">>, <<"2">>>>,
     ShortText, ExampleText}

\* Names of candidates: "1.nc", "a:b?.nc1", "x.y.dstv", "p<q|r.NC"
Stems ==
    {<<"1", ".", "n", "c">>,
     <<"a", ":", "b", "?", ".", "n", "c", "1">>,
     <<"x", ".", "y", ".", "d", "s", "t", "v">>,
     <<"p", "<", "q", "|", "r", ".", "N", "C">>}

\* Naming inputs: one file with a full header under the name "1.nc", or with
\* a short header under one of the names
InitName ==
    \/ \E p \in Pieces, g \in Grades, q \in Qtys, t \in Thicks :
            Start(Header(p, g, q, t), 0)
    \/ \E ls \in ShortHeaders, nm \in Stems :
            Begin(<<Named(Candidate(ls, TRUE, "ok", TRUE), nm)>>, 0)

\* The plate with a hole: the header of PlateText behind a BO block, so the two
\* texts get the same name and different drawings
BoredPlateText == <<BO, BoLine10>> \o PlateText

\* Files of a folder whose names meet: two plates with the same header, a
\* plate that has its name already, two files with another header that are
\* found under the name of the plate (one of them held open), a plate held
\* open, and an empty file, which is named after its stem
RenameFiles ==
    {Candidate(PlateText, TRUE, "ok", TRUE),
     Candidate(BoredPlateText, TRUE, "ok", TRUE),
     NamedFile,
     Named(Candidate(ShortText, TRUE, "ok", TRUE), PlateName),
     Named(Candidate(ShortText, TRUE, "error", TRUE), PlateName),
     Candidate(PlateText, TRUE, "error", TRUE),
     Candidate(<<>>, TRUE, "ok", TRUE)}

InitRename ==
    \E cs \in SeqsUpTo(RenameFiles, MaxFiles) \ {<<>>} : Distinct(cs) /\ Begin(cs, 0)

\* AK blocks with two points, with one and with none
AKBlockB == <<AK, PtLine3, PtLine4>>
AKBlockPoint == <<AK, PtLine1>>
AKBlockEmpty == <<AK>>

OuterBlocks ==
    {AKBlock, AKBlockB, AKBlockPoint, AKBlockEmpty, IKBlockA, BOBlockA, ENBlock}

\* Outer contour inputs: texts of at most MaxBlocks blocks, several AK blocks
\* among them
InitOuter ==
    \E bs \in SeqsUpTo(OuterBlocks, MaxBlocks) : Start(Concat(bs), 0)

\* Inputs the copies are compared over: the contours, the bores, the texts
\* put together from blocks, and a text with an outer contour, an inner
\* contour and a slot along (-3, 4)
SlantText == AKBlock \o IKBlockA \o <<BO, BoLine7, BoLine1>>

InitCopies ==
    \/ InitBulge
    \/ InitBore
    \/ InitDraw
    \/ \E r \in {0, 1} : Start(SlantText, r)

Init == InitTok \/ InitParse \/ InitBulge \/ InitBore \/ InitDraw \/ InitBatch
            \/ InitGate \/ InitIndep \/ InitName \/ InitRename \/ InitOuter
Spec == Init /\ [][Next]_vars
SpecBore == InitBore /\ [][Next]_vars
SpecDraw == InitDraw /\ [][Next]_vars
SpecBatch == InitBatch /\ [][Next]_vars
SpecGate == InitGate /\ [][Next]_vars
SpecIndep == InitIndep /\ [][Next]_vars
SpecName == InitName /\ [][Next]_vars
SpecRename == InitRename /\ [][Next]_vars
SpecOuter == InitOuter /\ [][Next]_vars
SpecCopies == InitCopies /\ [][Next]_vars

\* Control is at a statement of main() or of the conversion it called
AtStatement ==
    \/ bpc \in {"license", "folder"}
    \/ bpc = "read" /\ nfile <= Len(candidates)
    \/ bpc = "rename"
    \/ /\ bpc = "gen"
       /\ \/ pc \in {"idle", "outer", "done", "raised"}
          \/ pc = "tok" /\ i <= Len(lines)
          \/ pc \in {"ik", "bo"} /\ idx >= 1

\* main() is one sequential thread and every call it makes returns or raises:
\* as long as control is at a statement, steps keep being taken
SpecBatchLive == SpecBatch /\ ([]<>(~AtStatement) \/ []<><<Next>>_vars)

----------------------------------------------------------------------------
(* Claims on the bulge geometry engine, checked under SpecBulge            *)

\* The contours the assembler holds: the outer one and the inner ones
ContourList ==
    (IF outer_pts.some THEN <<outer_pts.pts>> ELSE <<>>) \o inner_contours

\* Once the drawing is complete: the contours the engine was applied to
Contours == IF pc = "done" THEN {ContourList[j] : j \in 1..Len(ContourList)} ELSE {}

\* The (x, y) pairs of a list of points or vertices
XY(ps) == [j \in 1..Len(ps) |-> <<ps[j].x, ps[j].y>>]

\* The polylines added to the modelspace from AK and IK contours
ContourPolylines ==
    SelectSeq(msp, LAMBDA e : e.kind = "LWPOLYLINE" /\ e.from \in {"AK", "IK"})

\* The successor of point j in the closed contour c
NextPt(c, j) == c[(j % Len(c)) + 1]

\* C1: for every contour of n >= 2 points build_xyb_from_points returns n
\* vertices, vertex j carrying the (x, y) of point j; and every polyline the
\* assembler added for a contour carries that contour's (x, y) in order.
C1_CoordinatesPassThrough ==
    /\ \A c \in Contours :
          Len(c) >= 2 => XY(build_xyb_from_points(c)) = XY(c)
    /\ \A j \in 1..Len(ContourPolylines) :
          LET e == ContourPolylines[j]
          IN IF e.from = "AK" THEN XY(e.verts) = XY(outer_pts.pts)
             ELSE \E q \in 1..Len(inner_contours) : XY(e.verts) = XY(inner_contours[q])

\* A three-point outer contour has been emitted with a synthesized bulge
C1_Witness ==
    /\ pc = "done"
    /\ \E j \in 1..Len(msp) :
          /\ msp[j].kind = "LWPOLYLINE"
          /\ msp[j].from = "AK"
          /\ Len(msp[j].verts) = 3
          /\ \E q \in 1..3 : msp[j].verts[q].b # 0

\* C2 as claimed: for every point of every contour of >= 2 points, k > 0
\* gives a bulge > 0, k < 0 a bulge < 0, and |k| < EPS a bulge of exactly 0.
C2_SignLawStrict ==
    \A c \in Contours :
        Len(c) >= 2 =>
            LET v == build_xyb_from_points(c)
            IN \A j \in 1..Len(c) :
                  /\ AbsLtEps(c[j].k) => v[j].b = 0
                  /\ ~AbsLtEps(c[j].k) /\ c[j].k.m > 0 => v[j].b > 0
                  /\ ~AbsLtEps(c[j].k) /\ c[j].k.m < 0 => v[j].b < 0

\* C2 amended: k > 0 gives a bulge >= 0 and k < 0 a bulge <= 0, |k| < EPS a
\* bulge of exactly 0; with |k| >= EPS the bulge is 0 exactly when the point
\* coincides with its successor (a chord of length 0).
C2_SignLaw ==
    \A c \in Contours :
        Len(c) >= 2 =>
            LET v == build_xyb_from_points(c)
            IN \A j \in 1..Len(c) :
                  /\ AbsLtEps(c[j].k) => v[j].b = 0
                  /\ c[j].k.m > 0 => v[j].b >= 0
                  /\ c[j].k.m < 0 => v[j].b <= 0
                  /\ ~AbsLtEps(c[j].k) =>
                        (v[j].b = 0 <=> dist(c[j], NextPt(c, j)) = 0)

\* An emitted outer contour holds a point with k > 0 that coincides with its
\* successor, and a point with k < 0 that does not
C2_Witness ==
    /\ pc = "done"
    /\ Len(ContourPolylines) >= 1
    /\ outer_pts.some
    /\ Len(outer_pts.pts) >= 2
    /\ LET c == outer_pts.pts
       IN /\ \E j \in 1..Len(c) :
                c[j].k.m > 0 /\ ~AbsLtEps(c[j].k) /\ dist(c[j], NextPt(c, j)) = 0
          /\ \E j \in 1..Len(c) :
                c[j].k.m < 0 /\ ~AbsLtEps(c[j].k) /\ dist(c[j], NextPt(c, j)) > 0

\* 1e-6 as an angle or a ratio
Tol == Scale \div 1000000

\* The angle of the arc leaving point j of contour c that chord length and
\* radius imply: 2 asin(min(1, d / (2 |k|)))
ImpliedAngle(c, j) ==
    2 * Asin(Min(Scale, Ratio(dist(c[j], NextPt(c, j)), DecAbs(c[j].k))))

\* The chord leaving point j of contour c is at least 2 |k| long
ChordSpansDiameter(c, j) ==
    Ratio(dist(c[j], NextPt(c, j)), DecAbs(c[j].k)) >= Scale

\* The emitted bulge of every arc edge is at most 1 in magnitude and gives
\* back the implied angle within 1e-6
ArcAngles ==
    \A c \in Contours :
        Len(c) >= 2 =>
            LET v == build_xyb_from_points(c)
            IN \A j \in 1..Len(c) :
                  ~AbsLtEps(c[j].k) =>
                      /\ Abs(v[j].b) <= Scale
                      /\ Abs(4 * Atan(Abs(v[j].b)) - ImpliedAngle(c, j)) <= Tol

\* C3 as claimed: the angle recomputed from the emitted bulge matches the
\* implied angle within 1e-6, |bulge| <= 1, and |bulge| = 1 whenever the
\* chord is at least 2 |k| long.
C3_ArcExact ==
    /\ ArcAngles
    /\ \A c \in Contours :
          Len(c) >= 2 =>
              \A j \in 1..Len(c) :
                  ~AbsLtEps(c[j].k) /\ ChordSpansDiameter(c, j) =>
                      Abs(build_xyb_from_points(c)[j].b) = Scale

\* C3 amended: as claimed, but with a chord of at least 2 |k| the emitted
\* |bulge| is 1 within 1e-6 and never above 1.
C3_Arc ==
    /\ ArcAngles
    /\ \A c \in Contours :
          Len(c) >= 2 =>
              \A j \in 1..Len(c) :
                  ~AbsLtEps(c[j].k) /\ ChordSpansDiameter(c, j) =>
                      LET b == Abs(build_xyb_from_points(c)[j].b)
                      IN Scale - Tol <= b /\ b <= Scale

\* The quad of the arc example has been emitted: chord 10 with k = 5 and
\* k = -5, on a platform whose tan(pi/4) is 0.9999999999999999
C3_Witness ==
    /\ pc = "done"
    /\ rnd = 1
    /\ \E j \in 1..Len(msp) :
          /\ msp[j].kind = "LWPOLYLINE"
          /\ msp[j].from = "AK"
          /\ Len(msp[j].verts) = 4
          /\ msp[j].verts[2].b = Scale - 1
          /\ msp[j].verts[4].b = 1 - Scale
          /\ dist(outer_pts.pts[2], outer_pts.pts[3]) = 10 * Pow10(LDigits)
          /\ outer_pts.pts[2].k = [m |-> 5, f |-> 0]

\* The number of elements of s that satisfy Test
Count(s, Test(_)) == Len(SelectSeq(s, Test))

\* C4: build_xyb_from_points raises for no contour, returns the empty list
\* for a contour of fewer than 2 points, and the assembler adds exactly one
\* polyline per contour of >= 2 points, none for the others.
C4_EngineTotal ==
    /\ pc # "raised"
    /\ \A c \in Contours :
          /\ ~Raises(build_xyb_from_points(c))
          /\ Len(c) < 2 => build_xyb_from_points(c) = <<>>
          /\ Len(c) >= 2 => Len(build_xyb_from_points(c)) = Len(c)
    /\ build_xyb_from_points(<<>>) = <<>>
    /\ pc = "done" =>
          Len(ContourPolylines) = Count(ContourList, LAMBDA c : Len(c) >= 2)

\* The conversion is complete for an outer contour with a zero-length chord
\* under |k| >= EPS, a chord longer than 2 |k| and a |k| below EPS, and an
\* inner contour of one point: one polyline only has been added
C4_Witness ==
    /\ pc = "done"
    /\ Len(ContourPolylines) = 1
    /\ \E q \in 1..Len(inner_contours) : Len(inner_contours[q]) = 1
    /\ outer_pts.some
    /\ Len(outer_pts.pts) >= 2
    /\ LET c == outer_pts.pts
       IN /\ \E j \in 1..Len(c) :
                ~AbsLtEps(c[j].k) /\ dist(c[j], NextPt(c, j)) = 0
          /\ \E j \in 1..Len(c) :
                ~AbsLtEps(c[j].k) /\ Ratio(dist(c[j], NextPt(c, j)), DecAbs(c[j].k)) > Scale
          /\ \E j \in 1..Len(c) : AbsLtEps(c[j].k) /\ c[j].k.m # 0

----------------------------------------------------------------------------
(* Claims about tokenize_blocks (SpecTok)                                  *)

\* The positions of the tag lines of the input
TagPos == {p \in 1..Len(lines) : TagMatch(Strip(lines[p]))}

\* The positions of the EN tag lines
ENPos == {p \in TagPos : Strip(lines[p]) = EN}

HasEN == ENPos # {}

\* The position of the first EN tag line; one past the end when there is none
FirstEN ==
    IF HasEN THEN CHOOSE p \in ENPos : \A q \in ENPos : p <= q
    ELSE Len(lines) + 1

\* The tag lines that open a block: those before the first EN tag line
Openers == {p \in TagPos : p < FirstEN}

\* The position of the first tag line; one past the end when there is none
FirstTag ==
    IF TagPos # {} THEN CHOOSE p \in TagPos : \A q \in TagPos : p <= q
    ELSE Len(lines) + 1

\* The first tag line after position p; one past the end when there is none
NextTag(p) ==
    LET later == {q \in TagPos : q > p}
    IN IF later # {} THEN CHOOSE q \in later : \A t \in later : q <= t
       ELSE Len(lines) + 1

\* The n-th opener in file order
NthOpener(n) == CHOOSE p \in Openers : Cardinality({q \in Openers : q <= p}) = n

\* The reference segmentation of the input
Reference ==
    [n \in 1..Cardinality(Openers) |->
        LET p == NthOpener(n)
        IN [tag |-> Strip(lines[p]),
            lines |-> SubSeq(lines, p + 1, NextTag(p) - 1)]]

\* The lines of the blocks bs, block after block
RECURSIVE BlockLines(_)
BlockLines(bs) ==
    IF bs = <<>> THEN <<>> ELSE Head(bs).lines \o BlockLines(Tail(bs))

\* The blocks bs written back as lines: each tag followed by its lines
RECURSIVE Rebuilt(_)
Rebuilt(bs) ==
    IF bs = <<>> THEN <<>>
    ELSE <<Head(bs).tag>> \o Head(bs).lines \o Rebuilt(Tail(bs))

\* The lines ls with every tag line replaced by its tag
Canon(ls) ==
    [p \in 1..Len(ls) |-> IF TagMatch(Strip(ls[p])) THEN Strip(ls[p]) ELSE ls[p]]

\* The generator is exhausted
Exhausted == pc # "tok"

\* C5: tokenize_blocks never yields a block tagged EN; the loop never reads
\* past the first EN tag line, so no line after it is yielded; and when the
\* generator is exhausted on an input with an EN tag line it stopped at that
\* line, having yielded one block per tag line before it, the block that was
\* open included, and only lines that precede it.
C5_StopsAtEN ==
    /\ \A j \in 1..Len(yielded) : yielded[j].tag # EN
    /\ i <= FirstEN
    /\ Len(discarded) + Len(BlockLines(yielded)) <= i
    /\ (Exhausted /\ HasEN) =>
          /\ i = FirstEN
          /\ cur_tag = EN
          /\ Len(yielded) = Cardinality(Openers)
          /\ discarded \o BlockLines(yielded) =
                SelectSeq(SubSeq(lines, 1, FirstEN - 1),
                          LAMBDA ln : ~TagMatch(Strip(ln)))

\* An input whose EN tag line is followed by a data line and preceded by a
\* block with a line has been tokenized
C5_Witness ==
    /\ Exhausted
    /\ HasEN
    /\ FirstEN < Len(lines)
    /\ \E p \in (FirstEN + 1)..Len(lines) : ~TagMatch(Strip(lines[p]))
    /\ yielded # <<>>
    /\ yielded[Len(yielded)].lines # <<>>

\* C6: the blocks tokenize_blocks yields are the reference segmentation of
\* the input: one block per tag line before the first EN tag line, in file
\* order, each with the non-tag lines up to the next tag line, verbatim; the
\* lines before the first tag line are in no block; the empty input yields
\* no block.
C6_ReferenceSegmentation ==
    Exhausted =>
        /\ yielded = Reference
        /\ discarded = SubSeq(lines, 1, FirstTag - 1)
        /\ lines = <<>> => yielded = <<>>

\* An input without EN, with a line before the first tag, a repeated tag, a
\* blank line in a block, and a block open at the end, has been tokenized
C6_Witness ==
    /\ Exhausted
    /\ ~HasEN
    /\ discarded # <<>>
    /\ \E j, k \in 1..Len(yielded) : j # k /\ yielded[j].tag = yielded[k].tag
    /\ \E j \in 1..Len(yielded) :
          \E n \in 1..Len(yielded[j].lines) : Strip(yielded[j].lines[n]) = <<>>
    /\ Strip(lines[Len(lines)]) = yielded[Len(yielded)].tag

\* C7 as stated: the discarded lines, the lines of the yielded blocks and
\* the lines of the block that precedes EN reproduce the input lines.
C7_ReconstructionVerbatim ==
    Exhausted =>
        \E tail \in {<<>>} \cup {yielded[j].lines : j \in 1..Len(yielded)} :
            discarded \o BlockLines(yielded) \o tail = lines

\* C7: the discarded lines followed by every yielded block written as its
\* tag and its lines reproduce the input lines before the first EN tag line,
\* each tag line reduced to its tag; the EN line and the lines after it are
\* in no block.
C7_Reconstruction ==
    Exhausted =>
        discarded \o Rebuilt(yielded) = Canon(SubSeq(lines, 1, FirstEN - 1))

\* An input with discarded lines, a tag line written with blanks around it,
\* a block with a line and an EN tag line before the end has been tokenized
C7_Witness ==
    /\ Exhausted
    /\ discarded # <<>>
    /\ BlockLines(yielded) # <<>>
    /\ \E p \in Openers : lines[p] # Strip(lines[p])
    /\ HasEN

----------------------------------------------------------------------------
(* Claims about parse_points_k and the bore classifier (SpecParse)         *)

\* The number of numeric tokens of line ln
NumTokens(ln) == Len(FindAll(ln))

\* The point a line with at least two tokens stands for
PointOf(ln) ==
    LET nums == FindAll(ln)
    IN [x |-> fnum(nums[1]), y |-> fnum(nums[2]),
        k |-> IF Len(nums) >= 3 THEN fnum(nums[3]) ELSE Zero]

\* One point per line with at least two tokens, in line order
RefPoints(ls) ==
    LET good == SelectSeq(ls, LAMBDA ln : NumTokens(ln) >= 2)
    IN [n \in 1..Len(good) |-> PointOf(good[n])]

\* The sequence ls without its n-th element
Remove(ls, n) == SubSeq(ls, 1, n - 1) \o SubSeq(ls, n + 1, Len(ls))

\* The decimal m / 10^f
Dec(m, f) == [m |-> m, f |-> f]

\* The points the consumer holds for the yielded block j
PointsOfBlock(j) ==
    IF yielded[j].tag = AK THEN outer_pts.pts
    ELSE IF inner_contours = <<>> THEN <<>> ELSE inner_contours[Len(inner_contours)]

\* The yielded blocks tagged AK or IK that are the only block of their tag
ContourBlocks ==
    {j \in 1..Len(yielded) :
        /\ yielded[j].tag \in {AK, IK}
        /\ \A k \in 1..Len(yielded) : k # j => yielded[k].tag # yielded[j].tag}

\* C8: parse_points_k returns one point per block line with at least two
\* numeric tokens, in line order, made of the first, the second and the third
\* token (0.0 without a third); "1,5 2.5" is the point (1.5, 2.5, 0.0) and
\* "+1.50,-2,5x3" is the point (1.5, -2.5, 3.0).
C8_Points ==
    \A j \in ContourBlocks :
        /\ PointsOfBlock(j) = RefPoints(yielded[j].lines)
        /\ yielded[j].lines = <<ParseLine1, ParseLine2>> =>
              PointsOfBlock(j) = <<[x |-> Dec(15, 1), y |-> Dec(25, 1), k |-> Dec(0, 0)],
                                   [x |-> Dec(15, 1), y |-> Dec(-25, 1), k |-> Dec(3, 0)]>>

\* A block of a line with ',' and '.' separators and no third token and a
\* line with three tokens has been parsed
C8_Witness ==
    \E j \in ContourBlocks :
        /\ yielded[j].lines = <<ParseLine1, ParseLine2>>
        /\ Len(PointsOfBlock(j)) = 2

\* The yielded blocks tagged BO, when there is one only
BoreBlocks ==
    {j \in 1..Len(yielded) :
        /\ yielded[j].tag = BO
        /\ \A k \in 1..Len(yielded) : k # j => yielded[k].tag # BO}

\* C9: the records of a block with a malformed line (fewer than 2 tokens in
\* AK/IK, fewer than 3 in BO) are the records of the block without that line,
\* and no error is raised.
C9_MalformedSkipped ==
    /\ pc # "raised"
    /\ \A j \in ContourBlocks : \A n \in 1..Len(yielded[j].lines) :
          NumTokens(yielded[j].lines[n]) < 2 =>
             PointsOfBlock(j) = parse_points_k(Remove(yielded[j].lines, n))
    /\ \A j \in BoreBlocks : \A n \in 1..Len(yielded[j].lines) :
          NumTokens(yielded[j].lines[n]) < 3 =>
             bo_items = bo_records(Remove(yielded[j].lines, n))

\* A contour block whose first line is malformed and whose second line is a
\* point has been parsed
C9_Witness ==
    \E j \in ContourBlocks :
        /\ Len(yielded[j].lines) = 2
        /\ NumTokens(yielded[j].lines[1]) < 2
        /\ NumTokens(yielded[j].lines[2]) >= 2
        /\ Len(PointsOfBlock(j)) = 1

\* The kinds of the records rs
Kinds(rs) == [n \in 1..Len(rs) |-> rs[n].kind]

\* The kinds of the records of the lines ls under the letter test HasL
ClassKinds(ls, HasL(_)) ==
    LET class(ln) == IF HasL(ln) /\ NumTokens(ln) >= 6 THEN "slot"
                     ELSE IF NumTokens(ln) >= 3 THEN "circle" ELSE "none"
        all == [n \in 1..Len(ls) |-> class(ls[n])]
    IN SelectSeq(all, LAMBDA c : c # "none")

HasLowerL(ln) == \E p \in 1..Len(ln) : ln[p] = "l"

HasLetterL(ln) == \E p \in 1..Len(ln) : ln[p] = "l" \/ ln[p] = "L"

\* C10 as stated: a BO line is a Slot iff it contains 'l' and has >= 6
\* tokens, else a Hole iff it has >= 3 tokens, else no record.
C10_ClassificationLowerL ==
    \A j \in BoreBlocks : Kinds(bo_items) = ClassKinds(yielded[j].lines, HasLowerL)

\* C10: a BO line is a Slot iff it contains the letter l in either case and
\* has >= 6 tokens, else a Hole iff it has >= 3 tokens, else no record.
C10_Classification ==
    \A j \in BoreBlocks : Kinds(bo_items) = ClassKinds(yielded[j].lines, HasLetterL)

\* A BO block of a line with 'L' and six tokens, recorded as a Slot, and of a
\* line with 'l' and three tokens, recorded as a Hole, has been classified
C10_Witness ==
    \E j \in BoreBlocks :
        /\ Len(yielded[j].lines) = 2
        /\ ~HasLowerL(yielded[j].lines[1])
        /\ HasLetterL(yielded[j].lines[1])
        /\ NumTokens(yielded[j].lines[1]) >= 6
        /\ HasLowerL(yielded[j].lines[2])
        /\ NumTokens(yielded[j].lines[2]) \in 3..5
        /\ Kinds(bo_items) = <<"slot", "circle">>

----------------------------------------------------------------------------
(* Claims about the bore records and add_slot_capsule (SpecBore)           *)

\* The modelspace is complete
Drawn == pc = "done"

\* e is a primitive that comes from a bore record
BorePrim(e) == e.kind = "CIRCLE" \/ e.from = "slot"

\* The primitive e without the position of its source
Unmarked(e) == [f \in DOMAIN e \ {"item"} |-> e[f]]

\* The primitives the modelspace holds for bore record k, in order
PrimsOf(k) ==
    LET es == SelectSeq(msp, LAMBDA e : BorePrim(e) /\ e.item = k)
    IN [j \in 1..Len(es) |-> Unmarked(es[j])]

\* The lines of the BO block, when there is one only
BoreLines ==
    IF BoreBlocks = {} THEN <<>> ELSE yielded[CHOOSE j \in BoreBlocks : TRUE].lines

\* The position in bo_items of the record of line p of ls
RecIdx(ls, p) == Cardinality({q \in 1..p : NumTokens(ls[q]) >= 3})

SlotLine(ln) == HasLetterL(ln) /\ NumTokens(ln) >= 6

HoleLine(ln) == ~SlotLine(ln) /\ NumTokens(ln) >= 3

\* The value of the t-th numeric token of ln
Tok(ln, t) == fnum(FindAll(ln)[t])

\* The two slot lines agree on the tokens 1, 2, 3, 5 and 6
SameSlotFields(a, b) == \A t \in {1, 2, 3, 5, 6} : Tok(a, t) = Tok(b, t)

\* C11: a slot line is recorded with center1 = (numbers[0], numbers[1]),
\* diameter = numbers[2] and center2 - center1 = (numbers[4], numbers[5]);
\* two slot lines that agree on these five tokens have the same record and
\* the same emitted primitives, whatever their fourth token and the tokens
\* after the sixth.
C11_FourthTokenUnused ==
    LET ls == BoreLines
    IN \A p \in 1..Len(ls) :
          SlotLine(ls[p]) =>
             LET rec == bo_items[RecIdx(ls, p)]
             IN /\ rec.kind = "slot"
                /\ rec.c1 = [x |-> Tok(ls[p], 1), y |-> Tok(ls[p], 2)]
                /\ rec.dia = Tok(ls[p], 3)
                /\ DecSub(rec.c2.x, rec.c1.x) = Tok(ls[p], 5)
                /\ DecSub(rec.c2.y, rec.c1.y) = Tok(ls[p], 6)
                /\ \A q \in 1..Len(ls) :
                      (SlotLine(ls[q]) /\ SameSlotFields(ls[p], ls[q])) =>
                         /\ bo_items[RecIdx(ls, q)] = rec
                         /\ Drawn => PrimsOf(RecIdx(ls, q)) = PrimsOf(RecIdx(ls, p))

\* Two slot lines that differ in the fourth token and in a seventh one have
\* been recorded and drawn
C11_Witness ==
    /\ Drawn
    /\ LET ls == BoreLines
       IN \E p, q \in 1..Len(ls) :
             /\ SlotLine(ls[p]) /\ SlotLine(ls[q])
             /\ SameSlotFields(ls[p], ls[q])
             /\ Tok(ls[p], 4) # Tok(ls[q], 4)
             /\ NumTokens(ls[p]) = 6 /\ NumTokens(ls[q]) = 7
             /\ PrimsOf(RecIdx(ls, p)) # <<>>

\* The vector from center1 to center2 of slot record rec
Axis(rec) == [x |-> DecSub(rec.c2.x, rec.c1.x), y |-> DecSub(rec.c2.y, rec.c1.y)]

\* The centers of rec are at distance L >= EPS: L^2 >= 1 / 10^(2 * EpsDigits)
SlotLong(rec) ==
    LET d  == Axis(rec)
        f  == Max(d.x.f, d.y.f)
        mx == Shift(d.x.m, f - d.x.f)
        my == Shift(d.y.m, f - d.y.f)
        sq == mx * mx + my * my
    IN sq # 0 /\ (f <= EpsDigits \/ sq >= Pow10(2 * (f - EpsDigits)))

\* A point with decimal coordinates as a point with length coordinates
LenPt(c) == [x |-> ToLen(c.x), y |-> ToLen(c.y)]

\* The product of two lengths, in units of 1 / Base
LenMul(a, b) == Sign(a) * Sign(b) * MulFix(Abs(a), Abs(b))

Vec(p, q) == [x |-> q.x - p.x, y |-> q.y - p.y]
Dot(u, v) == LenMul(u.x, v.x) + LenMul(u.y, v.y)
Cross(u, v) == LenMul(u.x, v.y) - LenMul(u.y, v.x)

\* Two units in the last place of a length, and twenty of a product
LenTol == Pow10(LDigits) \div 500000
AreaTol == Base \div 500

Near(a, b, tol) == Abs(a - b) <= tol

\* The slot records, by position in bo_items
SlotRecs == {k \in 1..Len(bo_items) : bo_items[k].kind = "slot"}

\* Record k was drawn as one closed polyline of four vertices on cutout
FourVertices(k) ==
    LET ps == PrimsOf(k)
    IN /\ Len(ps) = 1
       /\ ps[1].kind = "LWPOLYLINE"
       /\ ps[1].layer = "cutout"
       /\ ps[1].close
       /\ Len(ps[1].verts) = 4

\* The vertices of record k are center1 - r*n, center2 - r*n, center2 + r*n
\* and center1 + r*n, n the unit normal to the left of the axis, with the
\* bulges 0, 1, 0, 1
CapsuleVertices(k) ==
    LET rec == bo_items[k]
        v   == PrimsOf(k)[1].verts
        c1  == LenPt(rec.c1)
        c2  == LenPt(rec.c2)
        D   == ToLen(rec.dia)
        d   == Vec(c1, c2)
        w   == Vec(v[1], v[4])
    IN /\ <<v[1].b, v[2].b, v[3].b, v[4].b>> = <<0, Scale, 0, Scale>>
       /\ Near(v[1].x + v[4].x, 2 * c1.x, LenTol)
       /\ Near(v[1].y + v[4].y, 2 * c1.y, LenTol)
       /\ Near(v[2].x + v[3].x, 2 * c2.x, LenTol)
       /\ Near(v[2].y + v[3].y, 2 * c2.y, LenTol)
       /\ Near(v[2].x - v[1].x, d.x, LenTol)
       /\ Near(v[2].y - v[1].y, d.y, LenTol)
       /\ Near(Dot(d, w), 0, AreaTol)
       /\ Near(Dot(w, w), LenMul(D, D), AreaTol)
       /\ D # 0 => Sign(Cross(d, w)) = Sign(D)

\* The slot with centers (100, 50) and (140, 50) and diameter 20
ExampleSlot ==
    [kind |-> "slot", c1 |-> [x |-> Dec(100, 0), y |-> Dec(50, 0)],
     c2 |-> [x |-> Dec(140, 0), y |-> Dec(50, 0)], dia |-> Dec(20, 0)]

\* A length of u whole units
Units(u) == u * Pow10(LDigits)

\* C12: a slot record whose centers are at distance L >= 1e-9 is drawn as
\* exactly one closed polyline on cutout with the four vertices
\* (center1 - r*n, 0), (center2 - r*n, 1), (center2 + r*n, 0),
\* (center1 + r*n, 1); the centers (100, 50), (140, 50) with diameter 20 give
\* (100, 40, 0), (140, 40, 1), (140, 60, 0), (100, 60, 1).
C12_CapsuleOutline ==
    Drawn =>
        \A k \in SlotRecs :
            SlotLong(bo_items[k]) =>
                /\ FourVertices(k)
                /\ CapsuleVertices(k)
                /\ bo_items[k] = ExampleSlot =>
                      PrimsOf(k)[1].verts =
                         << [x |-> Units(100), y |-> Units(40), b |-> 0],
                            [x |-> Units(140), y |-> Units(40), b |-> Scale],
                            [x |-> Units(140), y |-> Units(60), b |-> 0],
                            [x |-> Units(100), y |-> Units(60), b |-> Scale] >>

\* The example slot and an oblique slot have been drawn
C12_Witness ==
    /\ Drawn
    /\ \E k \in SlotRecs : bo_items[k] = ExampleSlot /\ FourVertices(k)
    /\ \E k \in SlotRecs :
          /\ Axis(bo_items[k]).x.m # 0
          /\ Axis(bo_items[k]).y.m # 0
          /\ FourVertices(k)

\* The four vertices of record k wind counter-clockwise, the straight edges
\* are parallel, as long as the axis, and the diameter apart
CapsuleShape(k) ==
    LET rec == bo_items[k]
        v   == PrimsOf(k)[1].verts
        D   == ToLen(rec.dia)
        d   == Vec(LenPt(rec.c1), LenPt(rec.c2))
        e1  == Vec(v[1], v[2])
        e2  == Vec(v[4], v[3])
        w   == Vec(v[1], v[4])
    IN /\ Cross(e1, Vec(v[1], v[3])) + Cross(Vec(v[1], v[3]), w) > 0
       /\ Near(Cross(e1, e2), 0, AreaTol)
       /\ Near(Dot(e1, e1), Dot(d, d), AreaTol)
       /\ Near(Dot(e2, e2), Dot(d, d), AreaTol)
       /\ Near(Dot(e1, w), 0, AreaTol)
       /\ Near(Dot(w, w), LenMul(D, D), AreaTol)

\* C13 as stated: every slot record with distinct centers and diameter > 0
\* is drawn with four vertices that wind counter-clockwise, with parallel
\* straight edges of length |center2 - center1| at distance diameter.
C13_CapsuleShapeDistinct ==
    Drawn =>
        \A k \in SlotRecs :
            (bo_items[k].c1 # bo_items[k].c2 /\ bo_items[k].dia.m > 0) =>
                FourVertices(k) /\ CapsuleShape(k)

\* C13: every slot record with centers at distance >= 1e-9 and diameter > 0
\* is drawn with four vertices that wind counter-clockwise, with parallel
\* straight edges of length |center2 - center1| at distance diameter.
C13_CapsuleShape ==
    Drawn =>
        \A k \in SlotRecs :
            (SlotLong(bo_items[k]) /\ bo_items[k].dia.m > 0) =>
                FourVertices(k) /\ CapsuleShape(k)

\* An oblique slot of positive diameter has been drawn
C13_Witness ==
    /\ Drawn
    /\ \E k \in SlotRecs :
          /\ bo_items[k].dia.m > 0
          /\ Axis(bo_items[k]).x.m < 0
          /\ Axis(bo_items[k]).y.m > 0
          /\ FourVertices(k)

\* The circle of diameter dia at c on cutout
CircleAt(c, dia, e) ==
    /\ e.kind = "CIRCLE"
    /\ e.layer = "cutout"
    /\ e.center = c
    /\ DecAdd(e.radius, e.radius) = dia

\* C14 as stated: a slot record whose centers are closer than 1e-9 is drawn
\* as exactly one circle of radius diameter/2 at center1 on cutout, whatever
\* its diameter.
C14_DegenerateSlotAlways ==
    Drawn =>
        \A k \in SlotRecs :
            ~SlotLong(bo_items[k]) =>
                /\ Len(PrimsOf(k)) = 1
                /\ CircleAt(bo_items[k].c1, bo_items[k].dia, PrimsOf(k)[1])

\* C14: a slot record whose centers are closer than 1e-9 is drawn as exactly
\* one circle of radius diameter/2 at center1 on cutout and no polyline when
\* its diameter is positive, and as nothing when its diameter is <= 0.
C14_DegenerateSlot ==
    Drawn =>
        \A k \in SlotRecs :
            ~SlotLong(bo_items[k]) =>
                IF bo_items[k].dia.m > 0
                THEN /\ Len(PrimsOf(k)) = 1
                     /\ CircleAt(bo_items[k].c1, bo_items[k].dia, PrimsOf(k)[1])
                ELSE PrimsOf(k) = <<>>

\* A slot with coincident centers, one with distinct centers closer than
\* 1e-9, both of positive diameter, have been drawn
C14_Witness ==
    /\ Drawn
    /\ \E k \in SlotRecs :
          /\ bo_items[k].c1 = bo_items[k].c2
          /\ bo_items[k].dia.m > 0
          /\ Len(PrimsOf(k)) = 1
    /\ \E k \in SlotRecs :
          /\ bo_items[k].c1 # bo_items[k].c2
          /\ ~SlotLong(bo_items[k])
          /\ Len(PrimsOf(k)) = 1

\* The hole records, by position in bo_items
HoleRecs == {k \in 1..Len(bo_items) : bo_items[k].kind = "circle"}

\* C15: a hole line is recorded as (numbers[0], numbers[1], numbers[2]); a
\* hole record is drawn as exactly one circle on cutout with center (x, y)
\* and radius diameter/2 when diameter > 0 and as nothing otherwise; no
\* circle of radius <= 0 is ever in the modelspace.
C15_Holes ==
    /\ \A j \in 1..Len(msp) : msp[j].kind = "CIRCLE" => msp[j].radius.m > 0
    /\ LET ls == BoreLines
       IN \A p \in 1..Len(ls) :
             HoleLine(ls[p]) =>
                bo_items[RecIdx(ls, p)] =
                   [kind |-> "circle",
                    c1 |-> [x |-> Tok(ls[p], 1), y |-> Tok(ls[p], 2)],
                    dia |-> Tok(ls[p], 3)]
    /\ Drawn =>
          \A k \in HoleRecs :
              IF bo_items[k].dia.m > 0
              THEN /\ Len(PrimsOf(k)) = 1
                   /\ CircleAt(bo_items[k].c1, bo_items[k].dia, PrimsOf(k)[1])
              ELSE PrimsOf(k) = <<>>

\* The hole (5, 5, 12), drawn as the circle of radius 6 at (5, 5), and a
\* hole of negative diameter have been handled
C15_Witness ==
    /\ Drawn
    /\ \E k \in HoleRecs :
          /\ bo_items[k].dia = Dec(12, 0)
          /\ PrimsOf(k) = <<[layer |-> "cutout", kind |-> "CIRCLE",
                              center |-> [x |-> Dec(5, 0), y |-> Dec(5, 0)],
                              radius |-> Dec(6, 0)]>>
    /\ \E k \in HoleRecs : bo_items[k].dia.m < 0 /\ PrimsOf(k) = <<>>

----------------------------------------------------------------------------
(* Claims about the drawing assembler (SpecDraw)                           *)

\* The yielded blocks tagged t, in file order
BlocksTagged(t) == SelectSeq(yielded, LAMBDA b : b.tag = t)

\* The primitives on layer l, in the order they were added
OnLayer(l) == SelectSeq(msp, LAMBDA e : e.layer = l)

\* e is the polyline of an inner contour
InnerPrim(e) == e.kind = "LWPOLYLINE" /\ e.from = "IK"

\* The inner contours of the file, in the order of their IK blocks
RefInner ==
    LET bs == SelectSeq(BlocksTagged(IK), LAMBDA b : RefPoints(b.lines) # <<>>)
    IN [k \in 1..Len(bs) |-> RefPoints(bs[k].lines)]

\* The lines of the BO blocks of the file, in file order
RefBoreLines == BlockLines(BlocksTagged(BO))

\* The primitive e stands where its source says: an inner polyline carries the
\* points of inner contour e.item, a bore primitive the center of record e.item
FromItsSource(e) ==
    IF InnerPrim(e)
    THEN e.item \in 1..Len(inner_contours) /\ XY(e.verts) = XY(inner_contours[e.item])
    ELSE /\ e.item \in 1..Len(bo_items)
         /\ IF e.kind = "CIRCLE" THEN e.center = bo_items[e.item].c1
            ELSE /\ bo_items[e.item].kind = "slot"
                 /\ Near(e.verts[1].x + e.verts[4].x,
                         2 * ToLen(bo_items[e.item].c1.x), LenTol)
                 /\ Near(e.verts[1].y + e.verts[4].y,
                         2 * ToLen(bo_items[e.item].c1.y), LenTol)

\* C16: on cutout no inner-contour polyline follows a bore primitive; the
\* inner polylines follow the file order of their IK blocks and the bore
\* primitives the file order of their BO lines, whatever the order of the IK
\* and BO blocks in the file.
C16_EmissionOrder ==
    LET cut == OnLayer("cutout")
    IN /\ \A p, q \in 1..Len(cut) :
             p < q =>
                /\ ~(BorePrim(cut[p]) /\ InnerPrim(cut[q]))
                /\ (InnerPrim(cut[p]) = InnerPrim(cut[q])) => cut[p].item < cut[q].item
       /\ \A p \in 1..Len(cut) : FromItsSource(cut[p])
       /\ pc \notin {"tok", "idle"} =>
             /\ inner_contours = RefInner
             /\ bo_items = bo_records(RefBoreLines)

\* A text whose BO block precedes its two IK blocks has been drawn: two inner
\* polylines, then the bore primitives
C16_Witness ==
    /\ Drawn
    /\ \E a, b, c \in 1..Len(yielded) :
          /\ a < b /\ b < c
          /\ yielded[a].tag = BO /\ yielded[b].tag = IK /\ yielded[c].tag = IK
    /\ LET cut == OnLayer("cutout")
       IN /\ Len(cut) >= 4
          /\ InnerPrim(cut[1]) /\ InnerPrim(cut[2])
          /\ XY(cut[1].verts) # XY(cut[2].verts)
          /\ BorePrim(cut[3]) /\ BorePrim(cut[4])

\* The last yielded AK block
LastAK == BlocksTagged(AK)[Len(BlocksTagged(AK))]

\* C17: at most one primitive is on OUTER; it is a closed polyline built
\* from the points of an AK block; no circle and no primitive of an IK or BO
\* block is on OUTER.
C17_OuterLayer ==
    LET out == OnLayer("OUTER")
    IN /\ Len(out) <= 1
       /\ \A p \in 1..Len(out) :
             /\ out[p].kind = "LWPOLYLINE"
             /\ out[p].close
             /\ out[p].from = "AK"
             /\ BlocksTagged(AK) # <<>>
             /\ XY(out[p].verts) = XY(RefPoints(LastAK.lines))
       /\ \A p \in 1..Len(msp) :
             (msp[p].kind = "CIRCLE" \/ msp[p].from \in {"IK", "slot"}) =>
                msp[p].layer = "cutout"

\* A text with two AK blocks and a BO block has been drawn: one polyline on
\* OUTER, circles and slots on cutout
C17_Witness ==
    /\ Drawn
    /\ Len(BlocksTagged(AK)) = 2
    /\ Len(OnLayer("OUTER")) = 1
    /\ \E p \in 1..Len(msp) : msp[p].kind = "CIRCLE"
    /\ \E p \in 1..Len(msp) : msp[p].kind = "LWPOLYLINE" /\ msp[p].from = "slot"

\* The polylines of the inner contours cs
RECURSIVE InnerPolylines(_)
InnerPolylines(cs) ==
    IF cs = <<>> THEN <<>>
    ELSE LET verts == build_xyb_from_points(Head(cs))
         IN (IF verts # <<>> THEN <<Polyline("cutout", verts, "IK")>> ELSE <<>>)
            \o InnerPolylines(Tail(cs))

\* The primitives of the bore records rs
RECURSIVE BorePrimitives(_)
BorePrimitives(rs) ==
    IF rs = <<>> THEN <<>>
    ELSE LET item == Head(rs)
         IN (IF item.kind = "circle"
             THEN IF item.dia.m > 0
                  THEN <<[layer |-> "cutout", kind |-> "CIRCLE", center |-> item.c1,
                          radius |-> DecHalf(item.dia)]>>
                  ELSE <<>>
             ELSE add_slot_capsule(item.c1, item.c2, item.dia, "cutout"))
            \o BorePrimitives(Tail(rs))

\* What the IK and BO blocks of the file put on cutout, the AK blocks left aside
CutoutOfFile == InnerPolylines(RefInner) \o BorePrimitives(bo_records(RefBoreLines))

\* The primitives es without the positions of their sources
UnmarkedAll(es) == [j \in 1..Len(es) |-> Unmarked(es[j])]

\* C18: the conversion never fails; when no AK block was yielded nothing is
\* on OUTER; and in every drawing, with or without an AK block, the
\* primitives on cutout are those of the file's IK and BO blocks alone.
C18_MissingOuter ==
    /\ pc # "raised"
    /\ \A k \in 1..Len(log) : log[k].dxf = "ok"
    /\ BlocksTagged(AK) = <<>> => OnLayer("OUTER") = <<>>
    /\ Drawn => UnmarkedAll(OnLayer("cutout")) = CutoutOfFile

\* A text without AK block, with an inner contour and bores, has been
\* converted and counted as a success
C18_Witness ==
    /\ bpc = "summary"
    /\ dxf_ok = 1
    /\ BlocksTagged(AK) = <<>>
    /\ \E p \in 1..Len(msp) : InnerPrim(msp[p])
    /\ \E p \in 1..Len(msp) : BorePrim(msp[p])
    /\ OnLayer("OUTER") = <<>>

----------------------------------------------------------------------------
(* Claims about the batch loop of main() (SpecBatch, SpecBatchLive)        *)

\* The summary line has been printed
Summarised == bpc = "summary"

\* C19: a read error, a rename error or a DXF error on a candidate never
\* keeps the following candidates from being attempted: the candidates are
\* taken one by one in order, the loop ends only after the last one, and it
\* always reaches the summary line.
C19_FailureIsolation ==
    /\ [](\A k \in 1..Len(log) : log[k].file = k)
    /\ [](Len(log) = nfile /\ (Summarised \/ AtStatement))
    /\ [](Summarised => Len(log) = Len(candidates))
    /\ <>Summarised

\* A batch whose first candidate could not be read, whose second could not
\* be renamed and whose third could not be saved has reached the summary
C19_Witness ==
    /\ Summarised
    /\ Len(log) = 3
    /\ log[1].read = "error"
    /\ log[2].ren = "error" /\ log[2].dxf = "ok"
    /\ log[3].dxf = "error"

\* C20 as stated: at the summary every candidate has been counted once, as a
\* success or as a failure, read errors included, and renamed is at most the
\* number of candidates.
C20_EveryCandidateCounted ==
    Summarised =>
        /\ dxf_ok + dxf_err = Len(candidates)
        /\ renamed <= Len(candidates)

----------------------------------------------------------------------------
(* Claims about the files of one run (SpecIndep)                           *)

\* The candidates whose drawing was completed
Converted == {k \in 1..Len(log) : log[k].read = "ok" /\ log[k].dxf = "ok"}

\* C22: the primitives generate_dxf_from_nc_text emits for a text depend on
\* that text alone: two candidates of one run with the same text get the
\* same ordered list of primitives, whatever was converted before each.
C22_PerFileIndependence ==
    \A j, k \in Converted :
        log[j].text = log[k].text => log[j].prims = log[k].prims

\* A text has been converted first and again after a text with other
\* primitives, and both drawings hold primitives
C22_Witness ==
    /\ {1, 2, 3} \subseteq Converted
    /\ log[1].text = log[3].text
    /\ log[2].text # log[1].text
    /\ log[1].prims # <<>>
    /\ log[2].prims # <<>>
    /\ log[2].prims # log[1].prims
    /\ log[3].prims = log[1].prims

----------------------------------------------------------------------------
(* Claims about the license gate (SpecGate)                                *)

\* The lengths of the months of a common year
MonthDays == <<31, 28, 31, 30, 31, 30, 31, 31, 30, 31, 30, 31>>

\* The calendar has the day d of month m of year y
OnCalendar(y, m, d) ==
    /\ y >= 1
    /\ m \in 1..12
    /\ d >= 1
    /\ d <= IF m = 2 /\ (y % 400 = 0 \/ (y % 4 = 0 /\ y % 100 # 0)) THEN 29
            ELSE MonthDays[m]

\* The number a field of one or two digits stands for, -1 when it is no
\* such field; a day may be padded with a blank
Field(s, blank) ==
    IF Len(s) \in {1, 2} /\ \A k \in 1..Len(s) : s[k] \in Digit
    THEN DigitsValue(s, 0)
    ELSE IF blank /\ Len(s) = 2 /\ s[1] = " " /\ s[2] \in Digit
    THEN DigitVal(s[2])
    ELSE -1

\* The text s reads as year-month-day: three fields split by two hyphens, a
\* year of four digits, a month and a day of the calendar
ReadsAsDate(s) ==
    LET ps == {p \in 1..Len(s) : s[p] = "-"}
    IN /\ Cardinality(ps) = 2
       /\ LET a == CHOOSE p \in ps : \A q \in ps : p <= q
              b == CHOOSE p \in ps : \A q \in ps : p >= q
              y == SubSeq(s, 1, a - 1)
          IN /\ Len(y) = 4
             /\ \A k \in 1..4 : y[k] \in Digit
             /\ OnCalendar(DigitsValue(y, 0), Field(SubSeq(s, a + 1, b - 1), FALSE),
                           Field(SubSeq(s, b + 1, Len(s)), TRUE))

\* The date such a text stands for
DateRead(s) ==
    LET ps == {p \in 1..Len(s) : s[p] = "-"}
        a  == CHOOSE p \in ps : \A q \in ps : p <= q
        b  == CHOOSE p \in ps : \A q \in ps : p >= q
    IN Date(DigitsValue(SubSeq(s, 1, a - 1), 0), Field(SubSeq(s, a + 1, b - 1), FALSE),
            Field(SubSeq(s, b + 1, Len(s)), TRUE))

\* The license names a last day and today is past it
PastLastDay ==
    /\ lic.expires.kind = "str"
    /\ ReadsAsDate(lic.expires.s)
    /\ Later(today, DateRead(lic.expires.s))

\* The license file is there, well-formed, signed for this machine with the
\* key of the program
Genuine ==
    /\ lic.file = "present"
    /\ lic.key
    /\ lic.sig = "good"
    /\ lic.fp

\* No candidate has been read, renamed or converted and no folder was asked for
NoWork ==
    /\ candidates = <<>>
    /\ nfile = 0
    /\ log = <<>>
    /\ txt = <<>>
    /\ pc = "idle"
    /\ msp = <<>>
    /\ renamed = 0 /\ dxf_ok = 0 /\ dxf_err = 0
    /\ DOMAIN dxfs = {}
    /\ DOMAIN fs = {folder.listing[k] : k \in 1..Len(folder.listing)}
    /\ \A k \in 1..Len(folder.listing) : fs[folder.listing[k]].orig = k

HeaderPos(ls) ==
    LET sts == {k \in 1..Len(ls) : ToUpper(Strip(ls[k])) = <<"S", "T">>}
        st  == IF sts = {} THEN 0 ELSE CHOOSE k \in sts : \A j \in sts : k <= j
    IN {k \in (st + 1)..Min(st + 30, Len(ls)) :
            /\ Strip(ls[k]) # <<>>
            /\ ~StartsWith(Strip(ls[k]), <<"*", "*">>)}

\* The n-th header field of a text, <<>> when the header is shorter
HeaderField(ls, n) ==
    LET P == HeaderPos(ls)
    IN IF Cardinality(P) < n THEN <<>>
       ELSE Strip(ls[CHOOSE k \in P : Cardinality({j \in P : j < k}) = n - 1])

\* What the quantity of the name has to be for the header quantities of Qtys
QtyWanted(q) ==
    CASE q = <<"4">>           -> <<"4">>
      [] q = <<"0", "0", "7">> -> <<"7">>
      [] q = <<"+", "1", "2">> -> <<"1", "2">>
      [] q = <<"1", "_", "0">> -> <<"1", "0">>
      [] OTHER                 -> <<"1">>

\* s is the decimal string of a positive integer
PositiveDecimal(s) ==
    /\ s # <<>>
    /\ \A k \in 1..Len(s) : s[k] \in Digit
    /\ s[1] # "0"

\* s has none of the characters a file name must not have
Clean(s) == \A k \in 1..Len(s) : s[k] \notin Forbidden

\* s neither starts nor ends with white space
Trimmed(s) == s = <<>> \/ (s[1] \notin Space /\ s[Len(s)] \notin Space)

\* The part of a file name before its last dot
BeforeLastDot(nm) ==
    LET dots == {k \in 2..Len(nm) : nm[k] = "."}
    IN IF dots = {} THEN nm
       ELSE SubSeq(nm, 1, (CHOOSE k \in dots : \A j \in dots : j <= k) - 1)

\* No line of the text has a character a grade could start with
NoGradeWord(ls) ==
    \A k \in 1..Len(ls) : \A j \in 1..Len(ls[k]) :
        ls[k][j] \notin {"S", "s", "A", "a", "1"}

\* The quantity q of a name derived from the text ls
QtyOk(q, ls) ==
    /\ PositiveDecimal(q)
    /\ HeaderField(ls, 6) \in Qtys \cup {<<>>} => q = QtyWanted(HeaderField(ls, 6))

\* The thickness t of a name derived from the text ls
ThickOk(t, ls) ==
    /\ t # <<>>
    /\ (\A k \in 1..Len(ls) : ToUpper(Strip(ls[k])) # <<"B">>) => t = <<"N", "A">>

\* The grade g of a name derived from the text ls
GradeOk(g, ls) ==
    LET grade == HeaderField(ls, 5)
    IN /\ grade # <<>> /\ Clean(grade) => g = ToUpper(grade)
       /\ grade = <<>> /\ NoGradeWord(ls) => g = <<"N", "A">>

\* The name n derived from the text ls of the candidate called p
NameOk(n, ls, p) ==
    LET piece == HeaderField(ls, 3)
        from  == IF piece # <<>> THEN piece ELSE BeforeLastDot(p)
    IN Clean(from) /\ Trimmed(from) => n = from

\* f is grade-thickness-(name)-qty.nc1 for the text ls of the candidate p
Shaped(f, ls, p) ==
    \E a, b, c \in 2..Len(f) :
        /\ a < b /\ b + 1 < c /\ c + 1 < Len(f) - 4
        /\ f[a] = "-"
        /\ SubSeq(f, b, b + 1) = <<"-", "(">>
        /\ SubSeq(f, c, c + 1) = <<")", "-">>
        /\ SubSeq(f, Len(f) - 3, Len(f)) = <<".", "n", "c", "1">>
        /\ GradeOk(SubSeq(f, 1, a - 1), ls)
        /\ ThickOk(SubSeq(f, a + 1, b - 1), ls)
        /\ NameOk(SubSeq(f, b + 2, c - 1), ls, p)
        /\ QtyOk(SubSeq(f, c + 2, Len(f) - 4), ls)

\* The candidate at hand has been renamed
JustRenamed ==
    /\ bpc = "gen"
    /\ final_nc_path # candidates[nfile + 1]

\* C27: the name a candidate is renamed to is grade-thickness-(name)-qty.nc1:
\* the quantity is the decimal string of a positive integer, 1 when the
\* header has none, a non-integer or one that is not positive; grade and
\* thickness are NA when the text has none; the name is the piece mark, or
\* the stem of the candidate's name when the header has no piece mark; and no
\* character of it is one of \ / : * ? " < > | or a line break, so the
\* renamed file is an entry of the same folder.
C27_TargetName ==
    JustRenamed =>
        /\ Shaped(final_nc_path, txt, candidates[nfile + 1])
        /\ Clean(final_nc_path)
        /\ final_nc_path \in DOMAIN fs
        /\ fs[final_nc_path].text = txt

\* C27 witness: a candidate has been renamed whose piece mark has forbidden
\* characters and whose quantity is not positive
C27_Witness ==
    /\ JustRenamed
    /\ ~Clean(HeaderField(txt, 3))
    /\ HeaderField(txt, 6) = <<"-", "3">>

\* C27 witness of the fallbacks: a candidate without header has been renamed
\* after its stem, which has forbidden characters
C27_WitnessStem ==
    /\ JustRenamed
    /\ HeaderField(txt, 3) = <<>>
    /\ ~Clean(candidates[nfile + 1])

\* ---------------------------------------------------------------------
\* Claims about the files of a folder whose names meet (SpecRename)
\* ---------------------------------------------------------------------

\* The step of the rename block, from the new name to final_nc_path
RenameStep == bpc = "rename" /\ bpc' = "gen"

\* The step that ends the conversion of a candidate
ConvertStep == bpc = "gen" /\ bpc' = "read"

\* The contents on disk: the places their files had in the folder at the start
OnDisk == {fs[n].orig : n \in DOMAIN fs}

\* The rename block overwrites: a file found at the target is deleted, and
\* the candidate's file is found there afterwards and at its old path no more
TargetOverwritten ==
    LET p == candidates[nfile + 1]
        t == Target
    IN /\ (/\ t # p
           /\ t \in DOMAIN fs
           /\ fs[t].ren = "ok"
           /\ fs[p].ren = "ok") =>
                /\ renamed' = renamed + 1
                /\ fs[t].orig \notin {fs'[n].orig : n \in DOMAIN fs'}
       /\ renamed' = renamed + 1 =>
                /\ t # p
                /\ t \in DOMAIN fs'
                /\ fs'[t] = fs[p]
                /\ p \notin DOMAIN fs'
                /\ DOMAIN fs' = (DOMAIN fs \ {p}) \cup {t}
                /\ \A n \in DOMAIN fs \ {p, t} : fs'[n] = fs[n]

\* The entries of log of the candidates renamed to n
RenamedTo(n) ==
    {k \in 1..Len(log) : log[k].ren = "renamed" /\ log[k].final = n}

\* Of the candidates renamed to one name the later one is on disk
LaterOneStays ==
    /\ \A j, k \in 1..Len(log) :
        (/\ j < k
         /\ {j, k} \subseteq RenamedTo(log[k].final)
         /\ \A m \in (j + 1)..(k - 1) : log[m].name # log[k].final) =>
                log[j].orig \notin OnDisk
    /\ Summarised =>
        \A n \in DOMAIN fs :
            RenamedTo(n) # {} =>
                fs[n].orig = log[CHOOSE k \in RenamedTo(n) :
                                    \A j \in RenamedTo(n) : j <= k].orig

\* C23: when the new name differs from the candidate's name and another file
\* is found under the new name, that file is deleted and the candidate
\* renamed onto it; after a rename that succeeded the file of the candidate
\* is found under the new name and no file under the old one; so of two
\* candidates that get the same name only the one processed later is left.
C23_RenameOverwrites ==
    /\ [][RenameStep => TargetOverwritten]_vars
    /\ []LaterOneStays

\* C23 witness: two candidates have been renamed to the same name, and the
\* file found under it is the one of the second
C23_Witness ==
    /\ Summarised
    /\ \E j, k \in 1..Len(log) :
        /\ j < k
        /\ {j, k} \subseteq RenamedTo(log[k].final)
        /\ log[k].final \in DOMAIN fs
        /\ fs[log[k].final].orig = log[k].orig
        /\ log[j].text # log[k].text

\* No read, rename or save has failed
NoError ==
    \A k \in 1..Len(log) :
        log[k].read = "ok" /\ log[k].ren # "error" /\ log[k].dxf = "ok"

\* C24 (as stated): in a run without errors every candidate is read with the
\* content it had at the start, exactly one DXF is generated from this
\* content, and the content is found on disk at the end.
C24_NoInterference ==
    Summarised /\ NoError =>
        \A k \in 1..Len(candidates) :
            /\ log[k].orig = k
            /\ Cardinality({j \in 1..Len(log) :
                                log[j].orig = k /\ log[j].dxf = "ok"}) = 1
            /\ k \in OnDisk

\* C25 (as stated): after a run without collisions and without errors every
\* file of the folder has the name that is derived from it, so that a second
\* run finds every candidate correctly named.
C25_RenameIdempotent ==
    (/\ Summarised
     /\ NoError
     /\ Cardinality(DOMAIN fs) = Len(candidates)) =>
        \A n \in DOMAIN fs : new_name(fs[n].text, n) = n

\* The DXF of the candidate has the stem of the NC file's final name
DxfBesideNc ==
    /\ (dxf_ok' + dxf_err') = (dxf_ok + dxf_err) + 1
    /\ dxf_ok' = dxf_ok + 1 =>
        \E n \in DOMAIN dxfs' :
            /\ BeforeLastDot(n) = BeforeLastDot(final_nc_path)
            /\ SubSeq(n, Len(n) - 3, Len(n)) = <<".", "d", "x", "f">>
            /\ dxfs'[n] = [prims |-> msp, file |-> nfile + 1]
            /\ \A m \in DOMAIN dxfs' \ {n} : m \in DOMAIN dxfs /\ dxfs'[m] = dxfs[m]

\* The final name of the NC file: the new name when the rename succeeded, the
\* candidate's name otherwise
FinalName ==
    LET p == candidates[nfile + 1]
    IN IF p \notin DOMAIN fs'
       THEN final_nc_path' = Target /\ Target \in DOMAIN fs'
       ELSE final_nc_path' = p

\* The final name is the name of the file that was read
FinalHoldsText ==
    bpc = "gen" => final_nc_path \in DOMAIN fs /\ fs[final_nc_path].text = txt

\* A DXF was attempted for every candidate that was read
DxfAttempted ==
    \A k \in 1..Len(log) :
        log[k].read = "ok" =>
            /\ log[k].ren \in {"renamed", "same", "error"}
            /\ log[k].dxf \in {"ok", "error"}

\* C26: the DXF is written under the stem of the NC file's final name, which
\* is the new name when the rename succeeded, the unchanged name when the
\* name was correct already and the old name when the rename failed; a DXF
\* is attempted in each of the three cases.
C26_DxfBesideFinalName ==
    /\ [][RenameStep => FinalName]_vars
    /\ [][ConvertStep => DxfBesideNc]_vars
    /\ [](FinalHoldsText /\ DxfAttempted)

\* C26 witness: of three candidates one was renamed, one had its name already
\* and the rename of one failed, and each has got its DXF
C26_Witness ==
    /\ Summarised
    /\ \A r \in {"renamed", "same", "error"} :
        \E k \in 1..Len(log) :
            /\ log[k].ren = r
            /\ log[k].dxf = "ok"
            /\ log[k].out \in DOMAIN dxfs
            /\ dxfs[log[k].out].file = k

\* ---------------------------------------------------------------------
\* Claims about texts with several AK blocks (SpecOuter)
\* ---------------------------------------------------------------------

\* All blocks of the text have been handled
Tokenized == pc \notin {"idle", "tok"}

\* The points of the last yielded AK block
LastOuter == RefPoints(LastAK.lines)

\* C29: of several AK blocks only the last one determines the OUTER contour:
\* the points kept are those of the last AK block alone, the polyline on
\* OUTER is built from them, and nothing is drawn on OUTER when the last AK
\* block has fewer than two points, whatever the AK blocks before it hold.
C29_LastOuterBlock ==
    BlocksTagged(AK) # <<>> =>
        /\ Tokenized =>
            /\ outer_pts.some
            /\ XY(outer_pts.pts) = XY(LastOuter)
        /\ Drawn =>
            IF Len(LastOuter) < 2
            THEN OnLayer("OUTER") = <<>>
            ELSE /\ Len(OnLayer("OUTER")) = 1
                 /\ XY(OnLayer("OUTER")[1].verts) = XY(LastOuter)

\* C29 witness: a text has been drawn whose first AK block has three points
\* and whose last AK block has fewer than two; nothing is on OUTER
C29_Witness ==
    /\ Drawn
    /\ Len(BlocksTagged(AK)) >= 2
    /\ Len(RefPoints(BlocksTagged(AK)[1].lines)) = 3
    /\ Len(LastOuter) < 2
    /\ OnLayer("OUTER") = <<>>
    /\ msp # <<>>

\* ---------------------------------------------------------------------
\* Claims about the copies of the pipeline (SpecCopies)
\* ---------------------------------------------------------------------

\* What a DXF file shows of the primitives es: layer, kind, vertices with
\* bulges or center with radius
Shown(es) ==
    [k \in 1..Len(es) |->
        [f \in DOMAIN es[k] \ {"item", "from"} |-> es[k][f]]]

\* C28: the copies of the pipeline draw what main.py draws: for the text in
\* hand nc1_to_dxf.py and ncTodxf.py add the primitives of main.py's drawing,
\* in the same order, with the same layers, kinds, vertices or centers and
\* bulges or radii; and they raise when main.py does.
C28_CopiesAgree ==
    /\ Drawn =>
        /\ Shown(nc1_to_dxf_generate(lines)) = Shown(msp)
        /\ Shown(ncTodxf_main(lines)) = Shown(msp)
    /\ pc = "raised" =>
        /\ nc1_to_dxf_generate(lines) = NoDrawing
        /\ ncTodxf_main(lines) = NoDrawing

\* C28 witness: a text has been drawn by main.py with a polyline on OUTER, an
\* inner contour and a slot whose axis is neither horizontal nor vertical,
\* and the copies draw the same
C28_Witness ==
    /\ Drawn
    /\ OnLayer("OUTER") # <<>>
    /\ \E p, q \in 1..Len(msp) :
        /\ msp[p].kind = "LWPOLYLINE" /\ msp[p].from = "IK"
        /\ msp[q].kind = "LWPOLYLINE" /\ msp[q].from = "slot"
        /\ msp[q].verts[1].x # msp[q].verts[2].x
        /\ msp[q].verts[1].y # msp[q].verts[2].y
    /\ Shown(nc1_to_dxf_generate(lines)) = Shown(msp)

====
